---- MODULE Spec2Model ----
(***************************************************************************)
(* A model of the JSON comparator (jlwilley/JsonCompare).                  *)
(*                                                                         *)
(* src/app/page.tsx is the shape-aware comparator: it groups the objects   *)
(* of two JSON arrays by signature (sorted field names), keeps one key     *)
(* field per signature, and classifies the records as new, modified or     *)
(* deleted.  The model keeps the React state of the App component as       *)
(* variables and has one action per event handler / effect.                *)
(*                                                                         *)
(* JSON values.  A field value is [t |-> typeof, v |-> text]; an array     *)
(* element is [t |-> "object" | "null", f |-> <<property, ...>>] where a   *)
(* property is [k |-> name, v |-> value], or a primitive, written as a     *)
(* field value is.  The properties are a sequence                          *)
(* because a JavaScript object keeps the insertion order of its keys       *)
(* (Object.keys, JSON.stringify and the spread operator all follow it).    *)
(***************************************************************************)
EXTENDS Integers, Sequences, FiniteSets, TLC

\* The longest array a text area holds in the explored sessions.
MaxLen == 2

----------------------------------------------------------------------------
(* JSON values                                                             *)

Str(s) == [t |-> "string", v |-> s]
Num(s) == [t |-> "number", v |-> s]
Undefined == [t |-> "undefined", v |-> "undefined"]
Prop(k, v) == [k |-> k, v |-> v]
Obj(props) == [t |-> "object", f |-> props]
JsonNull == [t |-> "null", f |-> <<>>]

\* typeof x: null is an "object" for JavaScript.
TypeOf(x) == IF x.t = "null" THEN "object" ELSE x.t

\* typeof item !== "object" || item === null
NotAnObject(item) == TypeOf(item) # "object" \/ item.t = "null"

\* Object.keys(obj): the own field names in insertion order.
ObjectKeys(obj) == [i \in 1..Len(obj.f) |-> obj.f[i].k]

\* Object.prototype.hasOwnProperty.call(obj, key)
HasOwn(obj, key) == \E i \in 1..Len(obj.f) : obj.f[i].k = key

\* obj[key]: the value, or undefined when the object has no such field.
Get(obj, key) ==
    IF HasOwn(obj, key)
    THEN obj.f[CHOOSE i \in 1..Len(obj.f) : obj.f[i].k = key].v
    ELSE Undefined

\* obj[key] = value: an existing field keeps its position, a new one is
\* appended (this is also what {...obj, key: value} does).
SetProp(obj, key, value) ==
    IF HasOwn(obj, key)
    THEN Obj([i \in 1..Len(obj.f) |->
                 IF obj.f[i].k = key THEN Prop(key, value) ELSE obj.f[i]])
    ELSE Obj(Append(obj.f, Prop(key, value)))

\* delete obj[key]
DeleteProp(obj, key) == Obj(SelectSeq(obj.f, LAMBDA p : p.k # key))

\* The strings String.prototype.trim() turns into "".
Whitespace == {"", " "}
Trim(s) == IF s \in Whitespace THEN "" ELSE s

\* `${value}`: the text a template literal prints for a value.
ToText(value) == value.v

\* The field names of the model in the order Array.prototype.sort() gives
\* them (UTF-16 code units); the two names the comparator adds to an entry
\* are listed so that an entry can be serialised and compared as well.
FieldOrder ==
    <<"id", "id,x", "keyFieldUsed", "objectSignature", "x", "x,y", "y">>

Rank(name) == CHOOSE i \in 1..Len(FieldOrder) : FieldOrder[i] = name

Range(seq) == {seq[i] : i \in 1..Len(seq)}

\* names.sort() for a list of distinct field names.
\* The sequence without its m-th element.
Without(seq, m) ==
    [i \in 1..(Len(seq) - 1) |-> IF i < m THEN seq[i] ELSE seq[i + 1]]

RECURSIVE SortNames(_)
SortNamesFrom(names, m) == <<names[m]>> \o SortNames(Without(names, m))
SortNames(names) ==
    IF Len(names) = 0 THEN <<>>
    ELSE SortNamesFrom(names,
             CHOOSE i \in 1..Len(names) :
                 \A j \in 1..Len(names) : Rank(names[i]) <= Rank(names[j]))

\* parts.join(sep)
RECURSIVE Join(_, _)
Join(parts, sep) ==
    IF Len(parts) = 0 THEN ""
    ELSE IF Len(parts) = 1 THEN parts[1]
    ELSE parts[1] \o sep \o Join(Tail(parts), sep)

\* lodash isEqual on field values (strings and numbers here).
IsEqualValue(v1, v2) == v1 = v2

\* lodash isEqual on objects: the same own keys with equal values, in any
\* order.
isEqual(o1, o2) ==
    /\ Len(o1.f) = Len(o2.f)
    /\ \A i \in 1..Len(o1.f) :
          /\ HasOwn(o2, o1.f[i].k)
          /\ IsEqualValue(o1.f[i].v, Get(o2, o1.f[i].k))

\* JSON.stringify of a field value, and of an array element: null, an
\* object or a primitive.
StringifyValue(value) ==
    IF value.t = "string" THEN "\"" \o value.v \o "\"" ELSE value.v

RECURSIVE StringifyProps(_)
StringifyProps(props) ==
    IF Len(props) = 0 THEN ""
    ELSE "\"" \o props[1].k \o "\":" \o StringifyValue(props[1].v)
         \o (IF Len(props) = 1 THEN "" ELSE ",")
         \o StringifyProps(Tail(props))

JSONstringify(item) ==
    IF item.t = "null" THEN "null"
    ELSE IF item.t = "object" THEN "{" \o StringifyProps(item.f) \o "}"
    ELSE StringifyValue(item)

----------------------------------------------------------------------------
(* The text of an input area.  JSON.parse is modelled by its outcome: the  *)
(* text is blank, is not JSON (parse throws), is JSON but no array, or is  *)
(* an array of the listed elements.                                        *)

Text(kind, items) == [kind |-> kind, items |-> items]
BlankText == Text("blank", <<>>)
MalformedText == Text("malformed", <<>>)
NonArrayText == Text("nonarray", <<>>)
ArrayText(items) == Text("array", items)

\* !jsonString.trim()
IsBlank(text) == text.kind = "blank"

\* A message of the error banner: its text, what it names, and the
\* warnings it lists.
Message(message, subject, details) ==
    [message |-> message, subject |-> subject, details |-> details]

----------------------------------------------------------------------------
(* getObjectSignature                                                      *)

getObjectSignature(obj) == Join(SortNames(ObjectKeys(obj)), ",")

----------------------------------------------------------------------------
(* analyzeJsonStructures                                                   *)

Structure(signature, keys, count, potentialKeyFields) ==
    [signature |-> signature, keys |-> keys, count |-> count,
     potentialKeyFields |-> potentialKeyFields]

Analysis(structures, error) == [structures |-> structures, error |-> error]

\* The distinct elements of a sequence, each at its first position (the
\* order in which a Map or a Set gets its keys).
AppendNew(seq, e) == IF e \in Range(seq) THEN seq ELSE Append(seq, e)

RECURSIVE Distinct(_)
Distinct(seq) ==
    IF Len(seq) = 0 THEN <<>>
    ELSE AppendNew(Distinct(SubSeq(seq, 1, Len(seq) - 1)), seq[Len(seq)])

RECURSIVE Flatten(_)
Flatten(seqs) ==
    IF Len(seqs) = 0 THEN <<>> ELSE seqs[1] \o Flatten(Tail(seqs))

\* A field is a potential key when it is a non-empty string in ALL
\* instances of the structure.
IsValidKeyValue(obj, key) ==
    /\ HasOwn(obj, key)
    /\ Get(obj, key).t = "string"
    /\ Trim(Get(obj, key).v) # ""

\* a.signature.localeCompare(b.signature) < 0, decided on the sorted field
\* names the two signatures are joined from: the first differing name
\* decides, and a signature that is a prefix of the other comes first.
RECURSIVE KeysBefore(_, _)
KeysBefore(k1, k2) ==
    IF Len(k1) = 0 THEN Len(k2) > 0
    ELSE IF Len(k2) = 0 THEN FALSE
    ELSE IF k1[1] = k2[1] THEN KeysBefore(Tail(k1), Tail(k2))
    ELSE Rank(k1[1]) < Rank(k2[1])

RECURSIVE SortStructures(_)
SortStructuresFrom(structures, m) ==
    <<structures[m]>> \o SortStructures(Without(structures, m))
SortStructures(structures) ==
    IF Len(structures) = 0 THEN <<>>
    ELSE SortStructuresFrom(structures,
             CHOOSE i \in 1..Len(structures) :
                 \A j \in 1..Len(structures) :
                     j # i => KeysBefore(structures[i].keys,
                                         structures[j].keys))

\* StructureOfInstances with the potential keys taken from the first
\* instance alone.
StructureOfFirstInstance(signature, instances) ==
    Structure(signature,
        SortNames(Distinct(Flatten([i \in 1..Len(instances) |->
                                       ObjectKeys(instances[i])]))),
        Len(instances),
        SortNames(SelectSeq(ObjectKeys(instances[1]),
                      LAMBDA key : IsValidKeyValue(instances[1], key))))

\* The structure analyzeJsonStructures builds for one signature of the
\* parsed array.
StructureOfInstances(signature, instances) ==
    Structure(signature,
        SortNames(Distinct(Flatten([i \in 1..Len(instances) |->
                                       ObjectKeys(instances[i])]))),
        Len(instances),
        SortNames(SelectSeq(ObjectKeys(instances[1]),
                      LAMBDA key : \A i \in 1..Len(instances) :
                                      IsValidKeyValue(instances[i], key))))

StructureOf(parsed, signature) ==
    StructureOfInstances(signature,
        SelectSeq(parsed, LAMBDA item : getObjectSignature(item) = signature))

\* The structures of the map, in the order of its signatures.
StructuresOf(parsed, signatures) ==
    [i \in 1..Len(signatures) |-> StructureOf(parsed, signatures[i])]

\* analyzeJsonStructures with the elements that are no objects skipped.
analyzeJsonStructuresOfObjects(jsonString) ==
    IF IsBlank(jsonString) THEN Analysis(<<>>, "")
    ELSE IF jsonString.kind = "malformed"
    THEN Analysis(<<>>, "JSON Parsing Error")
    ELSE IF jsonString.kind = "nonarray"
    THEN Analysis(<<>>, "Input JSON must be an array of objects.")
    ELSE LET parsed == SelectSeq(jsonString.items,
                                 LAMBDA item : ~ NotAnObject(item)) IN
         Analysis(SortStructures(StructuresOf(parsed,
                      Distinct([i \in 1..Len(parsed) |->
                                   getObjectSignature(parsed[i])]))),
                  "")

analyzeJsonStructures(jsonString) ==
    IF IsBlank(jsonString) THEN Analysis(<<>>, "")
    ELSE IF jsonString.kind = "malformed"
    THEN Analysis(<<>>, "JSON Parsing Error")
    ELSE IF jsonString.kind = "nonarray"
    THEN Analysis(<<>>, "Input JSON must be an array of objects.")
    ELSE LET parsed == jsonString.items IN
         IF \E i \in 1..Len(parsed) : NotAnObject(parsed[i])
         THEN Analysis(<<>>, "All items in the JSON array must be objects.")
         ELSE Analysis(SortStructures(StructuresOf(parsed,
                           Distinct([i \in 1..Len(parsed) |->
                                        getObjectSignature(parsed[i])]))),
                       "")

\* structures.some((s) => s.signature === sig)
HasStructure(structures, sig) ==
    \E i \in 1..Len(structures) : structures[i].signature = sig

\* structures.find((s) => s.signature === sig), for a signature that is
\* present.
FindStructure(structures, sig) ==
    structures[CHOOSE i \in 1..Len(structures) :
                   structures[i].signature = sig]

Signatures(structures) == {structures[i].signature : i \in 1..Len(structures)}

----------------------------------------------------------------------------
(* The state of the App component                                          *)

VARIABLES
    beforeJsonString,      \* text of the 'Before' area
    afterJsonString,       \* text of the 'After' area
    beforeJsonStructures,  \* structures analysed from the 'Before' text
    afterJsonStructures,   \* structures analysed from the 'After' text
    selectedKeyConfig,     \* signature -> chosen key field
    combinedSignatures,    \* sorted signatures of both structure lists
    comparisonResult,      \* <<>> (null) or <<the ComparisonResult>>
    error,                 \* the messages of the error banner, <<>> if none
    effectPending          \* the analysis effect is scheduled to run

appVars == <<beforeJsonString, afterJsonString, beforeJsonStructures,
             afterJsonStructures, selectedKeyConfig, combinedSignatures,
             comparisonResult, error, effectPending>>

\* A call of calculateFieldChanges or of analyzeJsonStructures on its own:
\* the arguments and what the call returned (<<>> before it returns).
\* argKeyField is the key field the single-key page (part_000) is
\* configured with.
VARIABLES argObj1, argObj2, argJsonString, argKeyField, returned

callVars == <<argObj1, argObj2, argJsonString, argKeyField, returned>>

vars == <<appVars, callVars>>

Null == <<>>
EmptyConfig == [sig \in {} |-> ""]

\* selectedKeyConfig[sig]; "" stands for undefined (both are falsy).
KeyFieldOf(config, sig) == IF sig \in DOMAIN config THEN config[sig] ELSE ""

\* The App component after its construction.
AppInit ==
    /\ beforeJsonString = BlankText
    /\ afterJsonString = BlankText
    /\ beforeJsonStructures = <<>>
    /\ afterJsonStructures = <<>>
    /\ selectedKeyConfig = EmptyConfig
    /\ combinedSignatures = <<>>
    /\ comparisonResult = Null
    /\ error = <<>>
    /\ effectPending = TRUE

\* No call of a function on its own is made in a session of the page.
NoCall ==
    /\ argObj1 = Obj(<<>>)
    /\ argObj2 = Obj(<<>>)
    /\ argJsonString = BlankText
    /\ argKeyField = ""
    /\ returned = Null

Init == AppInit /\ NoCall

----------------------------------------------------------------------------
(* The effects: structure analysis with key auto-selection, and the list   *)
(* of combined signatures.                                                 *)

\* The map of all analysed structures: those of 'Before', and those of
\* 'After' whose signature is new or whose 'Before' structure has no
\* potential key.
AllAnalyzedStructure(beforeStructures, afterStructures, sig) ==
    IF HasStructure(beforeStructures, sig)
       /\ ~ (/\ HasStructure(afterStructures, sig)
             /\ Len(FindStructure(beforeStructures, sig).potentialKeyFields) = 0)
    THEN FindStructure(beforeStructures, sig)
    ELSE FindStructure(afterStructures, sig)

\* The signatures the effect auto-selects a key for.
AutoSelected(config, beforeStructures, afterStructures) ==
    {sig \in Signatures(beforeStructures) \cup Signatures(afterStructures) :
        /\ Len(AllAnalyzedStructure(beforeStructures, afterStructures, sig)
                  .potentialKeyFields) = 1
        /\ KeyFieldOf(config, sig) = ""}

\* AutoSelectOf with the selected keys not written to the new mapping.
AutoSelectOfNone(config, beforeStructures, afterStructures, auto) ==
    [sig \in DOMAIN config |-> config[sig]]

AutoSelectOf(config, beforeStructures, afterStructures, auto) ==
    [sig \in (DOMAIN config) \cup auto |->
        IF sig \in auto
        THEN AllAnalyzedStructure(beforeStructures, afterStructures, sig)
                 .potentialKeyFields[1]
        ELSE config[sig]]

AutoSelect(config, beforeStructures, afterStructures) ==
    AutoSelectOf(config, beforeStructures, afterStructures,
                 AutoSelected(config, beforeStructures, afterStructures))

\* Array.from(allSigs).sort() over the signatures of both lists.
SignaturesOf(structures) ==
    [i \in 1..Len(structures) |-> structures[i].signature]

CombinedSignatures(beforeStructures, afterStructures) ==
    SignaturesOf(SortStructures(
        beforeStructures \o
        SelectSeq(afterStructures,
            LAMBDA s : ~ HasStructure(beforeStructures, s.signature))))

\* The effect once both texts are analysed.
ApplyAnalysis(before, after, auto) ==
    /\ beforeJsonStructures' = before.structures
    /\ afterJsonStructures' = after.structures
    /\ error' =
           (IF before.error # "" /\ ~ IsBlank(beforeJsonString)
            THEN <<Message("Before JSON Error:", before.error, <<>>)>>
            ELSE <<>>)
           \o
           (IF after.error # "" /\ ~ IsBlank(afterJsonString)
            THEN <<Message("After JSON Error:", after.error, <<>>)>>
            ELSE <<>>)
    /\ combinedSignatures' =
           CombinedSignatures(before.structures, after.structures)
    /\ IF auto # {}
       THEN \* changedByAutoSelect: the new configuration re-triggers the
            \* effect, which depends on selectedKeyConfig.
            /\ selectedKeyConfig' =
                   AutoSelectOf(selectedKeyConfig, before.structures,
                                after.structures, auto)
            /\ effectPending' = TRUE
       ELSE /\ selectedKeyConfig' = selectedKeyConfig
            /\ effectPending' = FALSE

AnalyzedAndAutoSelected(before, after) ==
    ApplyAnalysis(before, after,
        AutoSelected(selectedKeyConfig, before.structures, after.structures))

AnalysisEffect ==
    /\ effectPending
    /\ AnalyzedAndAutoSelected(analyzeJsonStructures(beforeJsonString),
                               analyzeJsonStructures(afterJsonString))
    /\ UNCHANGED <<beforeJsonString, afterJsonString, comparisonResult>>

----------------------------------------------------------------------------
(* Input handlers                                                          *)

\* onChange of a text area.
TextareaChange(type, text) ==
    /\ ~ effectPending
    /\ IF type = "before"
       THEN /\ beforeJsonString' = text
            /\ UNCHANGED afterJsonString
       ELSE /\ afterJsonString' = text
            /\ UNCHANGED beforeJsonString
    /\ selectedKeyConfig' = EmptyConfig
    /\ effectPending' = TRUE
    /\ UNCHANGED <<beforeJsonStructures, afterJsonStructures,
                   combinedSignatures, comparisonResult, error>>

\* handleFileChange, a JSON file: reader.onload with the file's content.
FileLoaded(type, content) ==
    /\ ~ effectPending
    /\ IF type = "before"
       THEN /\ beforeJsonString' = content
            /\ beforeJsonStructures' = <<>>
            /\ UNCHANGED <<afterJsonString, afterJsonStructures>>
       ELSE /\ afterJsonString' = content
            /\ afterJsonStructures' = <<>>
            /\ UNCHANGED <<beforeJsonString, beforeJsonStructures>>
    /\ selectedKeyConfig' = EmptyConfig
    /\ error' = <<>>
    /\ effectPending' = TRUE
    /\ UNCHANGED <<combinedSignatures, comparisonResult>>

\* handleFileChange, a file whose type is not application/json.
FileRejected(type) ==
    /\ ~ effectPending
    /\ error' = <<Message("File must be a JSON file.", type, <<>>)>>
    /\ UNCHANGED <<beforeJsonString, afterJsonString, beforeJsonStructures,
                   afterJsonStructures, selectedKeyConfig, combinedSignatures,
                   comparisonResult, effectPending>>

\* The keys the select of a signature offers.
validKeysForSelect(signature) ==
    IF HasStructure(beforeJsonStructures, signature)
       /\ HasStructure(afterJsonStructures, signature)
    THEN SelectSeq(FindStructure(beforeJsonStructures, signature)
                       .potentialKeyFields,
             LAMBDA k : k \in Range(FindStructure(afterJsonStructures,
                                        signature).potentialKeyFields))
    ELSE IF HasStructure(beforeJsonStructures, signature)
    THEN FindStructure(beforeJsonStructures, signature).potentialKeyFields
    ELSE IF HasStructure(afterJsonStructures, signature)
    THEN FindStructure(afterJsonStructures, signature).potentialKeyFields
    ELSE <<>>

\* handleKeySelectionChange without the spread of the previous mapping:
\* the chosen key is the only entry left.
handleKeySelectionChangeAlone(signature, keyField) ==
    /\ ~ effectPending
    /\ signature \in Range(combinedSignatures)
    /\ HasStructure(beforeJsonStructures, signature)
    /\ HasStructure(afterJsonStructures, signature)
    /\ keyField \in Range(validKeysForSelect(signature))
    /\ selectedKeyConfig' = [sig \in {signature} |-> keyField]
    /\ effectPending' = TRUE
    /\ UNCHANGED <<beforeJsonString, afterJsonString, beforeJsonStructures,
                   afterJsonStructures, combinedSignatures, comparisonResult,
                   error>>

\* The select is rendered for a signature of both lists that has a common
\* potential key; choosing an item calls handleKeySelectionChange.
handleKeySelectionChange(signature, keyField) ==
    /\ ~ effectPending
    /\ signature \in Range(combinedSignatures)
    /\ HasStructure(beforeJsonStructures, signature)
    /\ HasStructure(afterJsonStructures, signature)
    /\ keyField \in Range(validKeysForSelect(signature))
    /\ selectedKeyConfig' =
           [sig \in (DOMAIN selectedKeyConfig) \cup {signature} |->
               IF sig = signature THEN keyField ELSE selectedKeyConfig[sig]]
    /\ effectPending' = TRUE
    /\ UNCHANGED <<beforeJsonString, afterJsonString, beforeJsonStructures,
                   afterJsonStructures, combinedSignatures, comparisonResult,
                   error>>

----------------------------------------------------------------------------
(* calculateFieldChanges                                                   *)

FieldChanges(added, removed, changed) ==
    [added |-> added, removed |-> removed, changed |-> changed]

\* BeforeAfter with the before value recorded as the after value too.
BeforeAfterOfBefore(val1, val2) == [before |-> val1, after |-> val1]

BeforeAfter(val1, val2) == [before |-> val1, after |-> val2]

\* FieldChangeStep without the test of the two values: a field of both
\* records is always recorded as changed.
FieldChangeStepAlwaysChanged(changes, obj1, obj2, key) ==
    IF ~ HasOwn(obj1, key) /\ HasOwn(obj2, key)
    THEN [changes EXCEPT !.added = SetProp(@, key, Get(obj2, key))]
    ELSE IF HasOwn(obj1, key) /\ ~ HasOwn(obj2, key)
    THEN [changes EXCEPT !.removed = SetProp(@, key, Get(obj1, key))]
    ELSE [changes EXCEPT !.changed =
             SetProp(@, key, BeforeAfter(Get(obj1, key), Get(obj2, key)))]

\* One iteration of allKeys.forEach.
FieldChangeStep(changes, obj1, obj2, key) ==
    LET val1 == Get(obj1, key)
        val2 == Get(obj2, key)
        obj1HasKey == HasOwn(obj1, key)
        obj2HasKey == HasOwn(obj2, key)
    IN  IF ~ obj1HasKey /\ obj2HasKey
        THEN [changes EXCEPT !.added = SetProp(@, key, val2)]
        ELSE IF obj1HasKey /\ ~ obj2HasKey
        THEN [changes EXCEPT !.removed = SetProp(@, key, val1)]
        ELSE IF obj1HasKey /\ obj2HasKey /\ ~ IsEqualValue(val1, val2)
        THEN [changes EXCEPT !.changed =
                                 SetProp(@, key, BeforeAfter(val1, val2))]
        ELSE changes

RECURSIVE FieldChangeLoop(_, _, _)
FieldChangeLoop(allKeys, obj1, obj2) ==
    IF Len(allKeys) = 0 THEN FieldChanges(Obj(<<>>), Obj(<<>>), Obj(<<>>))
    ELSE FieldChangeStep(
             FieldChangeLoop(SubSeq(allKeys, 1, Len(allKeys) - 1), obj1, obj2),
             obj1, obj2, allKeys[Len(allKeys)])

calculateFieldChanges(obj1, obj2) ==
    FieldChangeLoop(Distinct(ObjectKeys(obj1) \o ObjectKeys(obj2)), obj1, obj2)

\* calculateFieldChanges of the single-key comparator (part_000): its third
\* branch tests the two values only.
FieldChangeStepSingleKey(changes, obj1, obj2, key) ==
    LET val1 == Get(obj1, key)
        val2 == Get(obj2, key)
    IN  IF ~ HasOwn(obj1, key) /\ HasOwn(obj2, key)
        THEN [changes EXCEPT !.added = SetProp(@, key, val2)]
        ELSE IF HasOwn(obj1, key) /\ ~ HasOwn(obj2, key)
        THEN [changes EXCEPT !.removed = SetProp(@, key, val1)]
        ELSE IF ~ IsEqualValue(val1, val2)
        THEN [changes EXCEPT !.changed =
                                 SetProp(@, key, BeforeAfter(val1, val2))]
        ELSE changes

RECURSIVE FieldChangeLoopSingleKey(_, _, _)
FieldChangeLoopSingleKey(allKeys, obj1, obj2) ==
    IF Len(allKeys) = 0 THEN FieldChanges(Obj(<<>>), Obj(<<>>), Obj(<<>>))
    ELSE FieldChangeStepSingleKey(
             FieldChangeLoopSingleKey(SubSeq(allKeys, 1, Len(allKeys) - 1),
                                      obj1, obj2),
             obj1, obj2, allKeys[Len(allKeys)])

calculateFieldChangesSingleKey(obj1, obj2) ==
    FieldChangeLoopSingleKey(Distinct(ObjectKeys(obj1) \o ObjectKeys(obj2)),
                             obj1, obj2)

----------------------------------------------------------------------------
(* compareJsons                                                            *)

Warning(kind, side, signature, keyField, value) ==
    [kind |-> kind, side |-> side, signature |-> signature,
     keyField |-> keyField, value |-> value]

MapEntry(item, signature, keyField) ==
    [item |-> item, signature |-> signature, keyField |-> keyField]

EmptyMap == [keyValue \in {} |-> MapEntry(Obj(<<>>), "", "")]

\* map.set(keyValue, entry)
MapSet(map, keyValue, entry) ==
    [k \in (DOMAIN map) \cup {keyValue} |->
        IF k = keyValue THEN entry ELSE map[k]]

\* map.has(value): the keys of the maps are strings, and a value of
\* another type is the same as none of them.
MapHas(map, value) == value.t = "string" /\ value.v \in DOMAIN map

\* PopulateKeyed with the first record of a key value kept: a later record
\* with the key value gives its warning and is not mapped.
PopulateKeyedFirstKept(prev, item, side, signature, keyField) ==
    IF keyField = "" THEN prev
    ELSE IF ~ IsValidKeyValue(item, keyField)
    THEN [prev EXCEPT !.errors =
             Append(@, Warning("InvalidKey", side, signature, keyField,
                               ToText(Get(item, keyField))))]
    ELSE IF Get(item, keyField).v \in DOMAIN prev.map
    THEN [prev EXCEPT !.errors =
             Append(@, Warning("DuplicateKey", side, signature, keyField,
                               Get(item, keyField).v))]
    ELSE [prev EXCEPT !.map =
             MapSet(@, Get(item, keyField).v,
                    MapEntry(item, signature, keyField))]

\* PopulateKeyed without the trim of the key value: a blank key value is
\* mapped.
PopulateKeyedUntrimmed(prev, item, side, signature, keyField) ==
    IF keyField = "" THEN prev
    ELSE IF ~ (HasOwn(item, keyField) /\ Get(item, keyField).t = "string")
    THEN [prev EXCEPT !.errors =
             Append(@, Warning("InvalidKey", side, signature, keyField,
                               ToText(Get(item, keyField))))]
    ELSE [map |-> MapSet(prev.map, Get(item, keyField).v,
                         MapEntry(item, signature, keyField)),
          errors |->
              IF Get(item, keyField).v \in DOMAIN prev.map
              THEN Append(prev.errors,
                       Warning("DuplicateKey", side, signature, keyField,
                               Get(item, keyField).v))
              ELSE prev.errors]

\* One iteration of a loop that populates beforeMap or afterMap: the map
\* and the warnings pushed to localErrors.
PopulateKeyed(prev, item, side, signature, keyField) ==
    IF keyField = "" THEN prev
    ELSE IF ~ IsValidKeyValue(item, keyField)
    THEN [prev EXCEPT !.errors =
             Append(@, Warning("InvalidKey", side, signature, keyField,
                               ToText(Get(item, keyField))))]
    ELSE [map |-> MapSet(prev.map, Get(item, keyField).v,
                         MapEntry(item, signature, keyField)),
          errors |->
              IF Get(item, keyField).v \in DOMAIN prev.map
              THEN Append(prev.errors,
                       Warning("DuplicateKey", side, signature, keyField,
                               Get(item, keyField).v))
              ELSE prev.errors]

PopulateSigned(prev, item, side, config, signature) ==
    PopulateKeyed(prev, item, side, signature, KeyFieldOf(config, signature))

\* PopulateStep with the element that is no object passed over silently.
PopulateStepUnwarned(prev, item, side, config) ==
    IF NotAnObject(item)
    THEN prev
    ELSE PopulateSigned(prev, item, side, config, getObjectSignature(item))

PopulateStep(prev, item, side, config) ==
    IF NotAnObject(item)
    THEN [prev EXCEPT !.errors =
             Append(@, Warning("SkippedItem", side, "", "",
                               JSONstringify(item)))]
    ELSE PopulateSigned(prev, item, side, config, getObjectSignature(item))

RECURSIVE PopulateMap(_, _, _)
PopulateMap(data, side, config) ==
    IF Len(data) = 0 THEN [map |-> EmptyMap, errors |-> <<>>]
    ELSE PopulateStep(PopulateMap(SubSeq(data, 1, Len(data) - 1), side, config),
                      data[Len(data)], side, config)

\* {...item, objectSignature: signature}
UnkeyedEntry(item, signature) ==
    SetProp(item, "objectSignature", Str(signature))

\* {...item, objectSignature: signature, keyFieldUsed: keyField}
KeyedEntry(item, signature, keyField) ==
    SetProp(SetProp(item, "objectSignature", Str(signature)),
            "keyFieldUsed", Str(keyField))

ModifiedEntry(keyFieldValue, keyFieldUsed, objectSignature, before, after, changes) ==
    [keyFieldValue |-> keyFieldValue, keyFieldUsed |-> keyFieldUsed,
     objectSignature |-> objectSignature, before |-> before, after |-> after,
     changes |-> changes]

Entries(newEntries, modifiedEntries, deletedEntries) ==
    [newEntries |-> newEntries, modifiedEntries |-> modifiedEntries,
     deletedEntries |-> deletedEntries]

\* The field changes of a modified pair, without the key field when its
\* two values are equal.
WithoutEqualKey(changes, beforeItem, afterItem, keyField) ==
    IF HasOwn(changes.changed, keyField)
       /\ IsEqualValue(Get(beforeItem, keyField), Get(afterItem, keyField))
    THEN [changes EXCEPT !.changed = DeleteProp(@, keyField)]
    ELSE changes

ModifiedChanges(beforeItem, afterItem, keyField) ==
    WithoutEqualKey(calculateFieldChanges(beforeItem, afterItem),
                    beforeItem, afterItem, keyField)

\* The modified entry is pushed only if a field change is left.
PushModified(acc, keyValue, keyField, signature, beforeEntry, afterEntry, changes) ==
    IF \/ Len(changes.added.f) > 0
       \/ Len(changes.removed.f) > 0
       \/ Len(changes.changed.f) > 0
    THEN [acc EXCEPT !.modifiedEntries =
             Append(@, ModifiedEntry(keyValue.v, keyField, signature,
                           beforeEntry.item, afterEntry.item, changes))]
    ELSE acc

\* AfterMatched without the test of the two signatures: a record whose
\* signature changed is compared field by field.
AfterMatchedAsModified(acc, keyValue, keyField, signature, beforeEntry, afterEntry) ==
    IF ~ isEqual(beforeEntry.item, afterEntry.item)
    THEN PushModified(acc, keyValue, keyField, signature, beforeEntry,
             afterEntry,
             ModifiedChanges(beforeEntry.item, afterEntry.item, keyField))
    ELSE acc

\* An after item whose key value is in both maps.
AfterMatched(acc, keyValue, keyField, signature, beforeEntry, afterEntry) ==
    IF beforeEntry.signature # afterEntry.signature
    THEN [acc EXCEPT
             !.deletedEntries =
                 Append(@, KeyedEntry(beforeEntry.item, beforeEntry.signature,
                                      beforeEntry.keyField)),
             !.newEntries =
                 Append(@, KeyedEntry(afterEntry.item, afterEntry.signature,
                                      afterEntry.keyField))]
    ELSE IF ~ isEqual(beforeEntry.item, afterEntry.item)
    THEN PushModified(acc, keyValue, keyField, signature, beforeEntry,
             afterEntry,
             ModifiedChanges(beforeEntry.item, afterEntry.item, keyField))
    ELSE acc

\* An after item whose signature has a key field.
AfterKeyed(acc, signature, keyField, keyValue, beforeMap, afterMap) ==
    IF ~ MapHas(afterMap, keyValue) THEN acc
    ELSE IF ~ MapHas(beforeMap, keyValue)
    THEN [acc EXCEPT !.newEntries =
             Append(@, KeyedEntry(afterMap[keyValue.v].item, signature,
                                  keyField))]
    ELSE AfterMatched(acc, keyValue, keyField, signature,
                      beforeMap[keyValue.v], afterMap[keyValue.v])

AfterSigned(acc, item, signature, keyField, beforeMap, afterMap) ==
    IF keyField = ""
    THEN [acc EXCEPT !.newEntries = Append(@, UnkeyedEntry(item, signature))]
    ELSE AfterKeyed(acc, signature, keyField, Get(item, keyField), beforeMap,
                    afterMap)

\* One iteration of the loop over afterData.
AfterStep(acc, item, beforeMap, afterMap, config) ==
    IF NotAnObject(item) THEN acc
    ELSE AfterSigned(acc, item, getObjectSignature(item),
                     KeyFieldOf(config, getObjectSignature(item)),
                     beforeMap, afterMap)

RECURSIVE AfterLoop(_, _, _, _)
AfterLoop(afterData, beforeMap, afterMap, config) ==
    IF Len(afterData) = 0 THEN Entries(<<>>, <<>>, <<>>)
    ELSE AfterStep(AfterLoop(SubSeq(afterData, 1, Len(afterData) - 1),
                             beforeMap, afterMap, config),
                   afterData[Len(afterData)], beforeMap, afterMap, config)

\* A before item whose key value is in beforeMap and not in afterMap.
BeforeUnmatched(deletedEntries, signature, keyField, keyValue, beforeEntry) ==
    IF \E i \in 1..Len(deletedEntries) :
          \* alreadyDeletedDueToSigChange
          /\ Get(deletedEntries[i], "objectSignature")
                 = Str(beforeEntry.signature)
          /\ Get(deletedEntries[i], beforeEntry.keyField) = keyValue
    THEN deletedEntries
    ELSE Append(deletedEntries,
                KeyedEntry(beforeEntry.item, signature, keyField))

\* BeforeSigned without the search of afterData for the signature: an
\* unkeyed before item is always deleted.
BeforeSignedAlwaysDeleted(deletedEntries, item, signature, keyField, keyValue, afterData, beforeMap, afterMap) ==
    IF keyField = ""
    THEN Append(deletedEntries, UnkeyedEntry(item, signature))
    ELSE IF MapHas(beforeMap, keyValue) /\ ~ MapHas(afterMap, keyValue)
    THEN BeforeUnmatched(deletedEntries, signature, keyField, keyValue,
                         beforeMap[keyValue.v])
    ELSE deletedEntries

BeforeSigned(deletedEntries, item, signature, keyField, keyValue, afterData, beforeMap, afterMap) ==
    IF keyField = ""
    THEN IF \E i \in 1..Len(afterData) :
               /\ ~ NotAnObject(afterData[i])
               /\ getObjectSignature(afterData[i]) = signature
         THEN deletedEntries
         ELSE \* isPotentiallyDeleted
              Append(deletedEntries, UnkeyedEntry(item, signature))
    ELSE IF MapHas(beforeMap, keyValue) /\ ~ MapHas(afterMap, keyValue)
    THEN BeforeUnmatched(deletedEntries, signature, keyField, keyValue,
                         beforeMap[keyValue.v])
    ELSE deletedEntries

BeforeKeyField(deletedEntries, item, signature, keyField, afterData, beforeMap, afterMap) ==
    BeforeSigned(deletedEntries, item, signature, keyField,
                 Get(item, keyField), afterData, beforeMap, afterMap)

\* One iteration of the loop over beforeData.
BeforeStep(deletedEntries, item, afterData, beforeMap, afterMap, config) ==
    IF NotAnObject(item) THEN deletedEntries
    ELSE BeforeKeyField(deletedEntries, item, getObjectSignature(item),
                        KeyFieldOf(config, getObjectSignature(item)),
                        afterData, beforeMap, afterMap)

RECURSIVE BeforeLoop(_, _, _, _, _, _)
BeforeLoop(beforeData, deletedEntries, afterData, beforeMap, afterMap, config) ==
    IF Len(beforeData) = 0 THEN deletedEntries
    ELSE BeforeStep(BeforeLoop(SubSeq(beforeData, 1, Len(beforeData) - 1),
                               deletedEntries, afterData, beforeMap, afterMap,
                               config),
                    beforeData[Len(beforeData)], afterData, beforeMap,
                    afterMap, config)

MakeEntryIdWith(entry, sig, kf) ==
    IF kf # "" THEN sig \o "::" \o ToText(Get(entry, kf))
    ELSE sig \o "::" \o JSONstringify(entry)

makeEntryId(entry, sig, keyConf) ==
    MakeEntryIdWith(entry, sig, KeyFieldOf(keyConf, sig))

EntryId(entry, keyConf) ==
    makeEntryId(entry, Get(entry, "objectSignature").v, keyConf)

\* MapValues with the first entry of an id kept.
MapValuesFirstKept(entries, ids, keys) ==
    [n \in 1..Len(keys) |->
        entries[CHOOSE i \in 1..Len(entries) :
                   /\ ids[i] = keys[n]
                   /\ \A j \in 1..(i - 1) : ids[j] # keys[n]]]

\* Array.from(new Map(ids.map((id, i) => [id, entries[i]])).values()): one
\* entry per id, at the position of the id's first entry, holding its last
\* one.
MapValues(entries, ids, keys) ==
    [n \in 1..Len(keys) |->
        entries[CHOOSE i \in 1..Len(entries) :
                   /\ ids[i] = keys[n]
                   /\ \A j \in (i + 1)..Len(entries) : ids[j] # keys[n]]]

DedupeById(entries, ids) == MapValues(entries, ids, Distinct(ids))

DedupeEntries(entries, keyConf) ==
    DedupeById(entries,
               [i \in 1..Len(entries) |-> EntryId(entries[i], keyConf)])

ComparisonResult(newEntries, modifiedEntries, deletedEntries, errors) ==
    [newEntries |-> newEntries, modifiedEntries |-> modifiedEntries,
     deletedEntries |-> deletedEntries, errors |-> errors]

\* The result once both loops are done.
Deduplicated(found, deletedEntries, config, localErrors) ==
    ComparisonResult(DedupeEntries(found.newEntries, config),
                     found.modifiedEntries,
                     DedupeEntries(deletedEntries, config),
                     localErrors)

Classified(beforeData, afterData, config, before, after, found) ==
    Deduplicated(found,
        BeforeLoop(beforeData, found.deletedEntries, afterData, before.map,
                   after.map, config),
        config, before.errors \o after.errors)

Mapped(beforeData, afterData, config, before, after) ==
    Classified(beforeData, afterData, config, before, after,
               AfterLoop(afterData, before.map, after.map, config))

\* The result compareJsons computes from two arrays once the inputs are
\* validated.
Compare(beforeData, afterData, config) ==
    Mapped(beforeData, afterData, config,
           PopulateMap(beforeData, "before", config),
           PopulateMap(afterData, "after", config))

\* The signatures of the objects of both arrays, in the order the Set gets
\* them.
ObjectSignatures(objects) ==
    Distinct([i \in 1..Len(objects) |-> getObjectSignature(objects[i])])

ActiveSignatures(beforeData, afterData) ==
    ObjectSignatures(SelectSeq(beforeData \o afterData,
                               LAMBDA item : ~ NotAnObject(item)))

\* NeedsKey with a key wanted for a structure of either list.
NeedsKeyInEither(sig) ==
    /\ \/ HasStructure(beforeJsonStructures, sig)
       \/ HasStructure(afterJsonStructures, sig)
    /\ KeyFieldOf(selectedKeyConfig, sig) = ""

\* A key is mandatory for a structure that exists in both lists.
NeedsKey(sig) ==
    /\ HasStructure(beforeJsonStructures, sig)
    /\ HasStructure(afterJsonStructures, sig)
    /\ KeyFieldOf(selectedKeyConfig, sig) = ""

\* setComparisonResult(result), and the warnings banner unless the error
\* the callback was created with already holds one.
StoreResult(result) ==
    /\ comparisonResult' = <<result>>
    /\ error' =
           IF /\ Len(result.errors) > 0
              /\ ~ \E i \in 1..Len(error) :
                       error[i].message = "Comparison warnings:"
           THEN <<Message("Comparison warnings:", "", result.errors)>>
           ELSE <<>>

\* The validation of the key selection, then the comparison.
ValidateAndCompare(beforeData, afterData, active) ==
    IF \E i \in 1..Len(active) : NeedsKey(active[i])
    THEN /\ error' =
                <<Message("Please select a key field for object structure",
                     active[CHOOSE i \in 1..Len(active) :
                               /\ NeedsKey(active[i])
                               /\ \A j \in 1..(i - 1) : ~ NeedsKey(active[j])],
                     <<>>)>>
         /\ comparisonResult' = Null
    ELSE StoreResult(Compare(beforeData, afterData, selectedKeyConfig))

\* compareJsons without setComparisonResult(null) at its start: a call
\* that fails leaves the stored result as it is.
compareJsonsKeepingResult ==
    /\ IF IsBlank(beforeJsonString) \/ IsBlank(afterJsonString)
       THEN /\ error' = <<Message("Both 'Before JSON' and 'After JSON' must be provided.", "", <<>>)>>
            /\ UNCHANGED comparisonResult
       ELSE IF beforeJsonString.kind # "array"
       THEN /\ error' = <<Message("Error parsing 'Before JSON'", "", <<>>)>>
            /\ UNCHANGED comparisonResult
       ELSE IF afterJsonString.kind # "array"
       THEN /\ error' = <<Message("Error parsing 'After JSON'", "", <<>>)>>
            /\ UNCHANGED comparisonResult
       ELSE ValidateAndCompare(beforeJsonString.items, afterJsonString.items,
                ActiveSignatures(beforeJsonString.items,
                                 afterJsonString.items))
    /\ UNCHANGED <<beforeJsonString, afterJsonString, beforeJsonStructures,
                   afterJsonStructures, selectedKeyConfig, combinedSignatures,
                   effectPending>>

compareJsons ==
    /\ IF IsBlank(beforeJsonString) \/ IsBlank(afterJsonString)
       THEN /\ error' = <<Message("Both 'Before JSON' and 'After JSON' must be provided.", "", <<>>)>>
            /\ comparisonResult' = Null
       ELSE IF beforeJsonString.kind # "array"
       THEN /\ error' = <<Message("Error parsing 'Before JSON'", "", <<>>)>>
            /\ comparisonResult' = Null
       ELSE IF afterJsonString.kind # "array"
       THEN /\ error' = <<Message("Error parsing 'After JSON'", "", <<>>)>>
            /\ comparisonResult' = Null
       ELSE ValidateAndCompare(beforeJsonString.items, afterJsonString.items,
                ActiveSignatures(beforeJsonString.items,
                                 afterJsonString.items))
    /\ UNCHANGED <<beforeJsonString, afterJsonString, beforeJsonStructures,
                   afterJsonStructures, selectedKeyConfig, combinedSignatures,
                   effectPending>>

\* The 'Compare JSONs' button is disabled.
isCompareDisabled ==
    \/ IsBlank(beforeJsonString)
    \/ IsBlank(afterJsonString)
    \/ \E i \in 1..Len(combinedSignatures) : NeedsKey(combinedSignatures[i])

\* A click on the enabled 'Compare JSONs' button.
CompareClicked ==
    /\ ~ effectPending
    /\ ~ isCompareDisabled
    /\ compareJsons

----------------------------------------------------------------------------
(* The explored sessions                                                   *)

\* The array elements a text holds.
Items ==
    { Obj(<<Prop("id", Str("1"))>>),
      Obj(<<Prop("id", Str("2"))>>),
      Obj(<<Prop("id", Str(" "))>>),
      Obj(<<Prop("id", Num("7"))>>),
      Obj(<<Prop("id", Str("1")), Prop("x", Str("2"))>>),
      Obj(<<Prop("id", Str("2")), Prop("x", Str("1"))>>),
      Obj(<<Prop("id", Str("1")), Prop("x", Num("7"))>>),
      JsonNull,
      Num("5") }

SeqsUpTo(S, n) == UNION {[1..m -> S] : m \in 0..n}

Texts ==
    {BlankText, MalformedText, NonArrayText}
        \cup {ArrayText(items) : items \in SeqsUpTo(Items, MaxLen)}

Sides == {"before", "after"}

\* The names a select can offer.
KeyFields == {"id", "x"}

\* The text of one side.
JsonStringOf(type) ==
    IF type = "before" THEN beforeJsonString ELSE afterJsonString

\* A session: each input area is filled once, by typing or from a file,
\* keys are chosen and the comparison is run any number of times.  What
\* the comparison computes depends on the two texts and on the keys chosen
\* since the last change of a text only, so every comparison the program
\* can make of two texts of Texts occurs in a session.
Next ==
    \/ AnalysisEffect /\ UNCHANGED callVars
    \/ \E type \in Sides :
           /\ IsBlank(JsonStringOf(type))
           /\ \E text \in Texts : TextareaChange(type, text)
           /\ UNCHANGED callVars
    \/ \E type \in Sides :
           /\ IsBlank(JsonStringOf(type))
           /\ \E content \in Texts : FileLoaded(type, content)
           /\ UNCHANGED callVars
    \/ \E type \in Sides : FileRejected(type) /\ UNCHANGED callVars
    \/ \E signature \in Range(combinedSignatures), keyField \in KeyFields :
           handleKeySelectionChange(signature, keyField) /\ UNCHANGED callVars
    \/ CompareClicked /\ UNCHANGED callVars

Spec == Init /\ [][Next]_vars

----------------------------------------------------------------------------
(* Sessions with edits: the two input areas are changed any number of      *)
(* times, by typing or from a file, and compareJsons is called at any      *)
(* time.                                                                   *)

\* The texts of these sessions: a signature with one potential key, a
\* signature with two, both signatures, an array with a null element, and
\* the inputs that compareJsons rejects.
EditTexts ==
    { BlankText, MalformedText, NonArrayText,
      ArrayText(<<Obj(<<Prop("id", Str("1"))>>)>>),
      ArrayText(<<Obj(<<Prop("id", Str("1")), Prop("x", Str("2"))>>),
                  Obj(<<Prop("id", Str("2")), Prop("x", Str("1"))>>)>>),
      ArrayText(<<Obj(<<Prop("id", Str("1"))>>),
                  Obj(<<Prop("id", Str("2")), Prop("x", Str("1"))>>)>>),
      ArrayText(<<Obj(<<Prop("id", Str("1"))>>), JsonNull>>) }

\* compareJsons called whatever isCompareDisabled returns: the callback
\* has its own checks of the two texts and of the key selection.
CompareInvoked ==
    /\ ~ effectPending
    /\ compareJsons

EditNext ==
    \/ AnalysisEffect /\ UNCHANGED callVars
    \/ \E type \in Sides, text \in EditTexts :
           TextareaChange(type, text) /\ UNCHANGED callVars
    \/ \E type \in Sides, content \in EditTexts :
           FileLoaded(type, content) /\ UNCHANGED callVars
    \/ \E type \in Sides : FileRejected(type) /\ UNCHANGED callVars
    \/ \E signature \in Range(combinedSignatures), keyField \in KeyFields :
           handleKeySelectionChange(signature, keyField) /\ UNCHANGED callVars
    \/ CompareClicked /\ UNCHANGED callVars
    \/ CompareInvoked /\ UNCHANGED callVars

EditSpec == Init /\ [][EditNext]_vars

----------------------------------------------------------------------------
(* Sessions with longer arrays: each input area is filled once, by        *)
(* typing, with an array of up to MaxRecords records of the two            *)
(* signatures, all with valid key values.                                  *)

MaxRecords == 3

KeyedItems ==
    { Obj(<<Prop("id", Str("1"))>>),
      Obj(<<Prop("id", Str("2"))>>),
      Obj(<<Prop("id", Str("1")), Prop("x", Str("2"))>>),
      Obj(<<Prop("id", Str("2")), Prop("x", Str("1"))>>) }

KeyedTexts == {ArrayText(items) : items \in SeqsUpTo(KeyedItems, MaxRecords)}

KeyedNext ==
    \/ AnalysisEffect /\ UNCHANGED callVars
    \/ \E type \in Sides :
           /\ IsBlank(JsonStringOf(type))
           /\ \E text \in KeyedTexts : TextareaChange(type, text)
           /\ UNCHANGED callVars
    \/ \E signature \in Range(combinedSignatures), keyField \in KeyFields :
           handleKeySelectionChange(signature, keyField) /\ UNCHANGED callVars
    \/ CompareClicked /\ UNCHANGED callVars

KeyedSpec == Init /\ [][KeyedNext]_vars

----------------------------------------------------------------------------
(* Sessions with a field name that holds a comma: the records {id, "x,y"}  *)
(* and {id, x, y} have different fields and the one signature "id,x,y".    *)

CollidingItems ==
    { Obj(<<Prop("id", Str("1")), Prop("x,y", Str("1"))>>),
      Obj(<<Prop("id", Str("1")), Prop("x", Str("1")), Prop("y", Str("1"))>>),
      Obj(<<Prop("id", Str("2")), Prop("x", Str("1")), Prop("y", Str("2"))>>) }

CollidingTexts ==
    {ArrayText(items) : items \in SeqsUpTo(CollidingItems, MaxLen)}

CollisionNext ==
    \/ AnalysisEffect /\ UNCHANGED callVars
    \/ \E type \in Sides :
           /\ IsBlank(JsonStringOf(type))
           /\ \E text \in CollidingTexts : TextareaChange(type, text)
           /\ UNCHANGED callVars
    \/ \E signature \in Range(combinedSignatures), keyField \in KeyFields :
           handleKeySelectionChange(signature, keyField) /\ UNCHANGED callVars
    \/ CompareClicked /\ UNCHANGED callVars

CollisionSpec == Init /\ [][CollisionNext]_vars

----------------------------------------------------------------------------
(* calculateFieldChanges on its own: the two records are drawn from        *)
(* Records, and a call of either comparator's function returns.            *)

FieldValues == {Str("1"), Str("2"), Num("1")}

\* The records over the fields id and x, in both insertion orders.
Records ==
    {Obj(<<>>)}
        \cup {Obj(<<Prop(k, v)>>) : k \in KeyFields, v \in FieldValues}
        \cup UNION {{Obj(<<Prop(k1, v1), Prop(k2, v2)>>) :
                        k2 \in KeyFields \ {k1},
                        v1 \in FieldValues, v2 \in FieldValues} :
                    k1 \in KeyFields}

Returned(variant, changes) == [variant |-> variant, changes |-> changes]

FieldChangesInit ==
    /\ AppInit
    /\ argObj1 \in Records
    /\ argObj2 \in Records
    /\ argJsonString = BlankText
    /\ argKeyField = ""
    /\ returned = Null

CallCalculateFieldChanges ==
    /\ returned = Null
    /\ returned' = <<Returned("multi-key",
                         calculateFieldChanges(argObj1, argObj2))>>
    /\ UNCHANGED <<appVars, argObj1, argObj2, argJsonString, argKeyField>>

CallCalculateFieldChangesSingleKey ==
    /\ returned = Null
    /\ returned' = <<Returned("single-key",
                         calculateFieldChangesSingleKey(argObj1, argObj2))>>
    /\ UNCHANGED <<appVars, argObj1, argObj2, argJsonString, argKeyField>>

FieldChangesNext ==
    \/ CallCalculateFieldChanges
    \/ CallCalculateFieldChangesSingleKey

FieldChangesSpec == FieldChangesInit /\ [][FieldChangesNext]_vars

----------------------------------------------------------------------------
(* analyzeJsonStructures on its own: the text is drawn from AnalysisTexts  *)
(* and the call returns.                                                   *)

MaxItems == 3

\* The elements of the analysed arrays: records of one and of two fields,
\* the two fields in both orders, with values that are and are not valid
\* key values, a record whose one field name holds a comma, null and a
\* primitive.
AnalysisItems ==
    { Obj(<<Prop("id", Str("1"))>>),
      Obj(<<Prop("id", Str(" "))>>),
      Obj(<<Prop("id", Num("7"))>>),
      Obj(<<Prop("x", Str("1"))>>),
      Obj(<<Prop("id", Str("1")), Prop("x", Str("2"))>>),
      Obj(<<Prop("x", Str("2")), Prop("id", Str("1"))>>),
      Obj(<<Prop("id", Str("2")), Prop("x", Num("7"))>>),
      Obj(<<Prop("x", Str(" ")), Prop("id", Str("2"))>>),
      Obj(<<Prop("id,x", Str("1"))>>),
      JsonNull,
      Num("5") }

AnalysisTexts ==
    {BlankText, MalformedText, NonArrayText}
        \cup {ArrayText(items) : items \in SeqsUpTo(AnalysisItems, MaxItems)}

AnalysisInit ==
    /\ AppInit
    /\ argObj1 = Obj(<<>>)
    /\ argObj2 = Obj(<<>>)
    /\ argJsonString \in AnalysisTexts
    /\ argKeyField = ""
    /\ returned = Null

CallAnalyzeJsonStructures ==
    /\ returned = Null
    /\ returned' = <<analyzeJsonStructures(argJsonString)>>
    /\ UNCHANGED <<appVars, argObj1, argObj2, argJsonString, argKeyField>>

AnalysisNext == CallAnalyzeJsonStructures

AnalysisSpec == AnalysisInit /\ [][AnalysisNext]_vars

----------------------------------------------------------------------------
(* Properties of the comparison result                                     *)

\* A comparison has stored its result, and the result.
Compared == comparisonResult # Null
Result == comparisonResult[1]

\* Both texts parse to arrays.
BothArrays == beforeJsonString.kind = "array" /\ afterJsonString.kind = "array"

\* The stored result is the comparison of the two texts under the selected
\* keys (a key chosen after the comparison can leave an older result).
ResultIsCurrent ==
    /\ Compared
    /\ BothArrays
    /\ Result = Compare(beforeJsonString.items, afterJsonString.items,
                        selectedKeyConfig)

\* The signature an entry of newEntries or deletedEntries is labelled with,
\* and the record it carries.
SignatureOf(entry) == Get(entry, "objectSignature").v
CarriedItem(entry) ==
    DeleteProp(DeleteProp(entry, "objectSignature"), "keyFieldUsed")

\* The entities (signature, key value) of the keyed entries of a list of
\* new or deleted entries, and of a list of modified entries.
KeyedEntities(entries) ==
    {<<SignatureOf(entries[i]),
       Get(entries[i], Get(entries[i], "keyFieldUsed").v)>> :
        i \in {j \in 1..Len(entries) : HasOwn(entries[j], "keyFieldUsed")}}

ModifiedEntities(entries) ==
    {<<entries[i].objectSignature, Str(entries[i].keyFieldValue)>> :
        i \in 1..Len(entries)}

\* C1 (Partition): once a comparison has completed, no keyed entity
\* (signature + key value) is in more than one of newEntries,
\* modifiedEntries and deletedEntries.  The deleted + new pair of a key
\* value matched across two signatures is no exception to state: its two
\* entries are labelled with different signatures.
C1_Partition ==
    Compared =>
        /\ KeyedEntities(Result.newEntries)
               \cap KeyedEntities(Result.deletedEntries) = {}
        /\ KeyedEntities(Result.newEntries)
               \cap ModifiedEntities(Result.modifiedEntries) = {}
        /\ KeyedEntities(Result.deletedEntries)
               \cap ModifiedEntities(Result.modifiedEntries) = {}

\* C2 (No-op idempotence): comparing a collection with an identical copy
\* of itself leaves newEntries, modifiedEntries and deletedEntries empty.
C2_NoOp ==
    (Compared /\ BothArrays
        /\ beforeJsonString.items = afterJsonString.items)
    => /\ Result.newEntries = <<>>
       /\ Result.modifiedEntries = <<>>
       /\ Result.deletedEntries = <<>>

----------------------------------------------------------------------------
(* The records of the two inputs, as the properties below speak of them    *)

BeforeData == beforeJsonString.items
AfterData == afterJsonString.items

IsRecord(item) == ~ NotAnObject(item)

\* The key field configured for the signature of a record ("" if none).
KeyFieldFor(item) == KeyFieldOf(selectedKeyConfig, getObjectSignature(item))

Unkeyed(item) == IsRecord(item) /\ KeyFieldFor(item) = ""

\* The record has a configured key field and a valid value for it.
Keyed(item) ==
    /\ IsRecord(item)
    /\ KeyFieldFor(item) # ""
    /\ IsValidKeyValue(item, KeyFieldFor(item))

\* The record has a configured key field and no valid value for it.
InvalidKeyed(item) ==
    /\ IsRecord(item)
    /\ KeyFieldFor(item) # ""
    /\ ~ IsValidKeyValue(item, KeyFieldFor(item))

KeyValueOf(item) == Get(item, KeyFieldFor(item)).v

\* The entity of a keyed record: its signature and its key value.
EntityOf(item) == <<getObjectSignature(item), KeyValueOf(item)>>

\* The keyed records of a collection with a key value, by position.
WithKeyValue(data, keyValue) ==
    {i \in 1..Len(data) : Keyed(data[i]) /\ KeyValueOf(data[i]) = keyValue}

\* The record a lookup by key value holds: the last one set.
LookupRecord(data, keyValue) ==
    data[CHOOSE i \in WithKeyValue(data, keyValue) :
             \A j \in WithKeyValue(data, keyValue) : j <= i]

\* The record at position j is the last one of its entity in its
\* collection (an earlier duplicate is replaced by it).
LastOfEntity(data, j) ==
    \A i \in (j + 1)..Len(data) :
        ~ (Keyed(data[i]) /\ EntityOf(data[i]) = EntityOf(data[j]))

HasEntity(data, entity) ==
    \E i \in 1..Len(data) : Keyed(data[i]) /\ EntityOf(data[i]) = entity

HasSignature(data, signature) ==
    \E i \in 1..Len(data) :
        IsRecord(data[i]) /\ getObjectSignature(data[i]) = signature

\* The entries of a list that carry a record under a signature.
Carrying(entries, item, signature) ==
    {i \in 1..Len(entries) :
        /\ SignatureOf(entries[i]) = signature
        /\ isEqual(CarriedItem(entries[i]), item)}

Carries(entries, item, signature) == Carrying(entries, item, signature) # {}

\* No modified entry has the record as its before or after record.
NotModified(item) ==
    \A i \in 1..Len(Result.modifiedEntries) :
        /\ ~ isEqual(Result.modifiedEntries[i].before, item)
        /\ ~ isEqual(Result.modifiedEntries[i].after, item)

----------------------------------------------------------------------------
(* Scenario E: one record that gains a field                               *)

\* The after record has every field of the before record, with an equal
\* value, and one field more.
GainsOneField(beforeItem, afterItem) ==
    /\ Len(afterItem.f) = Len(beforeItem.f) + 1
    /\ \A i \in 1..Len(beforeItem.f) :
          /\ HasOwn(afterItem, beforeItem.f[i].k)
          /\ IsEqualValue(beforeItem.f[i].v, Get(afterItem, beforeItem.f[i].k))

GainedField(beforeItem, afterItem) ==
    CHOOSE key \in Range(ObjectKeys(afterItem)) : ~ HasOwn(beforeItem, key)

\* Each input is one record, both signatures are keyed on id, the key
\* value is valid, and the after record only gains a field.
ScenarioE ==
    /\ BothArrays
    /\ Len(BeforeData) = 1
    /\ Len(AfterData) = 1
    /\ IsRecord(BeforeData[1])
    /\ IsRecord(AfterData[1])
    /\ GainsOneField(BeforeData[1], AfterData[1])
    /\ KeyFieldFor(BeforeData[1]) = "id"
    /\ KeyFieldFor(AfterData[1]) = "id"
    /\ IsValidKeyValue(BeforeData[1], "id")

OneModifiedWithAdded ==
    /\ Compared
    /\ Len(Result.modifiedEntries) = 1
    /\ Result.modifiedEntries[1].changes.added =
           Obj(<<Prop(GainedField(BeforeData[1], AfterData[1]),
                      Get(AfterData[1],
                          GainedField(BeforeData[1], AfterData[1])))>>)
    /\ Result.newEntries = <<>>
    /\ Result.deletedEntries = <<>>

OneDeletedAndOneNew ==
    /\ Compared
    /\ Result.modifiedEntries = <<>>
    /\ Len(Result.deletedEntries) = 1
    /\ Carries(Result.deletedEntries, BeforeData[1],
               getObjectSignature(BeforeData[1]))
    /\ Len(Result.newEntries) = 1
    /\ Carries(Result.newEntries, AfterData[1],
               getObjectSignature(AfterData[1]))

\* C3 (Scenario E generalised), as claimed: when the before record and the
\* after record share their key value under key field id and the after
\* record only gains a field, the result of the comparison holds exactly
\* one modified entry whose added sub-mapping holds the new field, and no
\* new or deleted entry.
C3_OneModified == (ResultIsCurrent /\ ScenarioE) => OneModifiedWithAdded

\* C3, amended: in that case the result of the comparison of the page
\* holds no modified entry, exactly one deleted entry carrying the before
\* record and exactly one new entry carrying the after record (the two
\* signatures differ).
C3_Replacement == (ResultIsCurrent /\ ScenarioE) => OneDeletedAndOneNew

\* The comparison of Scenario E has stored its result.
C3_Compared ==
    /\ ScenarioE
    /\ ResultIsCurrent
    /\ Len(Result.deletedEntries) = 1
    /\ Len(Result.newEntries) = 1

----------------------------------------------------------------------------
(* Signature changes, coverage and one-sided shapes                        *)

\* The after record at position j is keyed, the before lookup holds its
\* key value, and the record the before lookup holds has another
\* signature.
ShapeChanged(j) ==
    /\ Keyed(AfterData[j])
    /\ LastOfEntity(AfterData, j)
    /\ WithKeyValue(BeforeData, KeyValueOf(AfterData[j])) # {}
    /\ getObjectSignature(LookupRecord(BeforeData, KeyValueOf(AfterData[j])))
           # getObjectSignature(AfterData[j])

ReplacedBy(beforeItem, afterItem) ==
    /\ Cardinality(Carrying(Result.deletedEntries, beforeItem,
                            getObjectSignature(beforeItem))) = 1
    /\ Cardinality(Carrying(Result.newEntries, afterItem,
                            getObjectSignature(afterItem))) = 1
    /\ \A i \in 1..Len(Result.modifiedEntries) :
          Result.modifiedEntries[i].keyFieldValue # KeyValueOf(afterItem)

ShapeChangesReplaced ==
    \A j \in 1..Len(AfterData) :
        ShapeChanged(j) =>
            ReplacedBy(LookupRecord(BeforeData, KeyValueOf(AfterData[j])),
                       AfterData[j])

\* C4 (Shape-change replacement): when the key value of a keyed after
\* record is in the before lookup and the two records' signatures differ,
\* the result of the comparison holds exactly one deleted entry carrying
\* the before record, exactly one new entry carrying the after record, and
\* no modified entry for that key value.
C4_Replacement == ResultIsCurrent => ShapeChangesReplaced

NewCovered ==
    \A j \in 1..Len(AfterData) :
        (/\ Keyed(AfterData[j])
         /\ LastOfEntity(AfterData, j)
         /\ ~ HasEntity(BeforeData, EntityOf(AfterData[j])))
        => \E i \in Carrying(Result.newEntries, AfterData[j],
                             getObjectSignature(AfterData[j])) :
               Get(Result.newEntries[i], KeyFieldFor(AfterData[j]))
                   = Str(KeyValueOf(AfterData[j]))

DeletedCovered ==
    \A j \in 1..Len(BeforeData) :
        (/\ Keyed(BeforeData[j])
         /\ LastOfEntity(BeforeData, j)
         /\ ~ HasEntity(AfterData, EntityOf(BeforeData[j])))
        => \E i \in Carrying(Result.deletedEntries, BeforeData[j],
                             getObjectSignature(BeforeData[j])) :
               Get(Result.deletedEntries[i], KeyFieldFor(BeforeData[j]))
                   = Str(KeyValueOf(BeforeData[j]))

\* C5 (Coverage): in the result of a comparison, every after record with
\* a valid key whose (signature, key value) pair is not in the before
\* collection is carried by an entry of newEntries for that pair, and
\* every before record with a valid key whose pair is not in the after
\* collection is carried by an entry of deletedEntries for that pair (of
\* the records of one pair in one collection, the last one).
C5_Coverage == ResultIsCurrent => (NewCovered /\ DeletedCovered)

\* A record that is compared: unkeyed, or keyed with a valid key value and
\* the last one of its entity.
ComparedRecord(data, j) ==
    \/ Unkeyed(data[j])
    \/ Keyed(data[j]) /\ LastOfEntity(data, j)

OneSidedShown ==
    /\ \A j \in 1..Len(AfterData) :
          (/\ ComparedRecord(AfterData, j)
           /\ ~ HasSignature(BeforeData, getObjectSignature(AfterData[j])))
          => Carries(Result.newEntries, AfterData[j],
                     getObjectSignature(AfterData[j]))
    /\ \A j \in 1..Len(BeforeData) :
          (/\ ComparedRecord(BeforeData, j)
           /\ ~ HasSignature(AfterData, getObjectSignature(BeforeData[j])))
          => Carries(Result.deletedEntries, BeforeData[j],
                     getObjectSignature(BeforeData[j]))

\* C9 (One-sided shapes): in the result of a comparison, every record
\* whose signature occurs in only one of the two inputs is carried by an
\* entry of newEntries (signature only in After) or of deletedEntries
\* (signature only in Before), with or without an auto-selected key and
\* whatever key values the other signatures use.
C9_OneSided == ResultIsCurrent => OneSidedShown

----------------------------------------------------------------------------
(* Field changes                                                           *)

RECURSIVE SetAll(_, _)
SetAll(obj, props) ==
    IF Len(props) = 0 THEN obj
    ELSE SetAll(SetProp(obj, props[1].k, props[1].v), Tail(props))

RECURSIVE DeleteAll(_, _)
DeleteAll(obj, props) ==
    IF Len(props) = 0 THEN obj
    ELSE DeleteAll(DeleteProp(obj, props[1].k), Tail(props))

AfterValues(changed) ==
    [i \in 1..Len(changed.f) |-> Prop(changed.f[i].k, changed.f[i].v.after)]

\* The before record with the fields of added added, those of removed
\* deleted and those of changed set to their after value.
Reapplied(beforeItem, changes) ==
    SetAll(DeleteAll(SetAll(beforeItem, changes.added.f), changes.removed.f),
           AfterValues(changes.changed))

\* C6 (Field-change completeness): for every modified entry of a stored
\* result, re-applying added, removed and changed to the before record
\* gives a record deeply equal to the after record.
C6_Completeness ==
    Compared =>
        \A i \in 1..Len(Result.modifiedEntries) :
            isEqual(Reapplied(Result.modifiedEntries[i].before,
                              Result.modifiedEntries[i].changes),
                    Result.modifiedEntries[i].after)

\* A stored result has a modified entry with a changed field.
C6_Modified ==
    /\ Compared
    /\ \E i \in 1..Len(Result.modifiedEntries) :
          Len(Result.modifiedEntries[i].changes.changed.f) > 0

\* The class calculateFieldChanges gave a field name.
InAdded(changes, key, value) ==
    /\ HasOwn(changes.added, key)
    /\ Get(changes.added, key) = value
    /\ ~ HasOwn(changes.removed, key)
    /\ ~ HasOwn(changes.changed, key)

InRemoved(changes, key, value) ==
    /\ HasOwn(changes.removed, key)
    /\ Get(changes.removed, key) = value
    /\ ~ HasOwn(changes.added, key)
    /\ ~ HasOwn(changes.changed, key)

InChanged(changes, key, val1, val2) ==
    /\ HasOwn(changes.changed, key)
    /\ Get(changes.changed, key) = [before |-> val1, after |-> val2]
    /\ ~ HasOwn(changes.added, key)
    /\ ~ HasOwn(changes.removed, key)

Omitted(changes, key) ==
    /\ ~ HasOwn(changes.added, key)
    /\ ~ HasOwn(changes.removed, key)
    /\ ~ HasOwn(changes.changed, key)

ClassifiedField(changes, key) ==
    IF ~ HasOwn(argObj1, key) /\ ~ HasOwn(argObj2, key)
    THEN Omitted(changes, key)
    ELSE IF ~ HasOwn(argObj1, key)
    THEN InAdded(changes, key, Get(argObj2, key))
    ELSE IF ~ HasOwn(argObj2, key)
    THEN InRemoved(changes, key, Get(argObj1, key))
    ELSE IF Get(argObj1, key) # Get(argObj2, key)
    THEN InChanged(changes, key, Get(argObj1, key), Get(argObj2, key))
    ELSE Omitted(changes, key)

\* C7: calculateFieldChanges(obj1, obj2) puts every field name of the two
\* records in exactly one class: added (only in obj2, with obj2's value),
\* removed (only in obj1, with obj1's value), changed (in both with
\* different values, with {before, after}) or omitted (in both with equal
\* values); no field name is in two of added, removed and changed, and
\* none is there that neither record has.
C7_Classification ==
    returned # Null =>
        \A key \in KeyFields : ClassifiedField(returned[1].changes, key)

\* A call has returned an added and a changed field.
C7_Returned ==
    /\ returned # Null
    /\ Len(returned[1].changes.added.f) > 0
    /\ Len(returned[1].changes.changed.f) > 0

----------------------------------------------------------------------------
(* Unkeyed records and invalid key values                                  *)

UnkeyedClassified ==
    /\ \A j \in 1..Len(AfterData) :
          Unkeyed(AfterData[j])
          => Carries(Result.newEntries, AfterData[j],
                     getObjectSignature(AfterData[j]))
    /\ \A j \in 1..Len(BeforeData) :
          Unkeyed(BeforeData[j])
          => /\ Carries(Result.deletedEntries, BeforeData[j],
                        getObjectSignature(BeforeData[j]))
                <=> ~ HasSignature(AfterData,
                                   getObjectSignature(BeforeData[j]))
             /\ NotModified(BeforeData[j])
    /\ \A i \in 1..Len(Result.modifiedEntries) :
          KeyFieldOf(selectedKeyConfig,
                     Result.modifiedEntries[i].objectSignature) # ""

\* C8 (Unkeyed records): in the result of a comparison, every after record
\* whose signature has no key field is in newEntries; a before record
\* whose signature has no key field is in deletedEntries if and only if
\* no after record has its signature, and is in no modified entry; no
\* modified entry is of a signature without a key field.
C8_Unkeyed == ResultIsCurrent => UnkeyedClassified

\* A comparison of unkeyed records: a before record whose signature is in
\* After, one whose signature is not, and an after record.
C8_Compared ==
    /\ ResultIsCurrent
    /\ \E j \in 1..Len(BeforeData) :
          /\ Unkeyed(BeforeData[j])
          /\ HasSignature(AfterData, getObjectSignature(BeforeData[j]))
    /\ \E j \in 1..Len(BeforeData) :
          /\ Unkeyed(BeforeData[j])
          /\ ~ HasSignature(AfterData, getObjectSignature(BeforeData[j]))
    /\ \E j \in 1..Len(AfterData) : Unkeyed(AfterData[j])

InvalidKeyWarnings(side) ==
    {i \in 1..Len(Result.errors) :
        Result.errors[i].kind = "InvalidKey" /\ Result.errors[i].side = side}

InvalidKeyedIn(data) == {j \in 1..Len(data) : InvalidKeyed(data[j])}

\* No entry of newEntries or deletedEntries carries the record, and no
\* modified entry has it.
InNoList(item) ==
    /\ \A i \in 1..Len(Result.newEntries) :
          ~ isEqual(CarriedItem(Result.newEntries[i]), item)
    /\ \A i \in 1..Len(Result.deletedEntries) :
          ~ isEqual(CarriedItem(Result.deletedEntries[i]), item)
    /\ NotModified(item)

InvalidKeysDropped ==
    /\ \A j \in InvalidKeyedIn(BeforeData) : InNoList(BeforeData[j])
    /\ \A j \in InvalidKeyedIn(AfterData) : InNoList(AfterData[j])
    /\ Cardinality(InvalidKeyWarnings("before"))
           = Cardinality(InvalidKeyedIn(BeforeData))
    /\ Cardinality(InvalidKeyWarnings("after"))
           = Cardinality(InvalidKeyedIn(AfterData))

\* A click on the button that compares two arrays with a record whose key
\* value is invalid.
ComparesInvalidKey ==
    /\ CompareClicked
    /\ BothArrays
    /\ InvalidKeyedIn(BeforeData) \cup InvalidKeyedIn(AfterData) # {}

\* C10 (InvalidKeyValue): a record whose signature has a key field and
\* whose value for it is missing, no string or blank gives one warning for
\* its side and is in none of newEntries, modifiedEntries and
\* deletedEntries; the comparison of such a record still stores a result.
C10_InvalidKeyValue ==
    /\ [](ResultIsCurrent => InvalidKeysDropped)
    /\ [][ComparesInvalidKey => Compared']_vars

\* A comparison has dropped a record whose key value is blank and one
\* whose key value is a number.
C10_Dropped ==
    /\ ResultIsCurrent
    /\ InvalidKeyedIn(BeforeData) \cup InvalidKeyedIn(AfterData) # {}
    /\ \E i \in 1..Len(Result.errors) :
          Result.errors[i].kind = "InvalidKey" /\ Result.errors[i].value = " "
    /\ \E i \in 1..Len(Result.errors) :
          Result.errors[i].kind = "InvalidKey" /\ Result.errors[i].value = "7"

----------------------------------------------------------------------------
(* Duplicate key values                                                    *)

\* The positions of a collection whose record repeats the key value of an
\* earlier valid keyed record of the collection.
Repeats(data) ==
    {j \in 1..Len(data) :
        /\ Keyed(data[j])
        /\ \E i \in 1..(j - 1) :
              Keyed(data[i]) /\ KeyValueOf(data[i]) = KeyValueOf(data[j])}

DuplicateKeyWarnings(side) ==
    SelectSeq(Result.errors,
              LAMBDA w : w.kind = "DuplicateKey" /\ w.side = side)

\* One warning per repeated occurrence, naming its signature, its key
\* field and its key value, in the order of the collection.
RepeatWarningsAt(data, side, positions) ==
    [n \in 1..Len(positions) |->
        Warning("DuplicateKey", side,
                getObjectSignature(data[positions[n]]),
                KeyFieldFor(data[positions[n]]),
                KeyValueOf(data[positions[n]]))]

RepeatWarnings(data, side) ==
    RepeatWarningsAt(data, side,
        SelectSeq([j \in 1..Len(data) |-> j],
                  LAMBDA j : j \in Repeats(data)))

\* The record is equal to the last valid keyed record of the collection
\* with some key value.
IsWinner(data, item) ==
    \E j \in 1..Len(data) :
        /\ Keyed(data[j])
        /\ data[j] = LookupRecord(data, KeyValueOf(data[j]))
        /\ isEqual(data[j], item)

\* No keyed entry of the result holds a record that a later record of its
\* side replaced.
WinnersUsed ==
    /\ \A i \in 1..Len(Result.newEntries) :
          HasOwn(Result.newEntries[i], "keyFieldUsed")
          => IsWinner(AfterData, CarriedItem(Result.newEntries[i]))
    /\ \A i \in 1..Len(Result.deletedEntries) :
          HasOwn(Result.deletedEntries[i], "keyFieldUsed")
          => IsWinner(BeforeData, CarriedItem(Result.deletedEntries[i]))
    /\ \A i \in 1..Len(Result.modifiedEntries) :
          /\ IsWinner(BeforeData, Result.modifiedEntries[i].before)
          /\ IsWinner(AfterData, Result.modifiedEntries[i].after)

CarriedBy(entries, item) ==
    \E i \in 1..Len(entries) : isEqual(CarriedItem(entries[i]), item)

ModifiedFromTo(beforeItem, afterItem) ==
    \E i \in 1..Len(Result.modifiedEntries) :
        /\ isEqual(Result.modifiedEntries[i].before, beforeItem)
        /\ isEqual(Result.modifiedEntries[i].after, afterItem)

\* What the comparison makes of a key value held by the after lookup with
\* record afterItem.
AfterWinnerClassified(keyValue, afterItem) ==
    IF WithKeyValue(BeforeData, keyValue) = {}
    THEN CarriedBy(Result.newEntries, afterItem)
    ELSE IF getObjectSignature(LookupRecord(BeforeData, keyValue))
                # getObjectSignature(afterItem)
    THEN /\ CarriedBy(Result.deletedEntries,
                      LookupRecord(BeforeData, keyValue))
         /\ CarriedBy(Result.newEntries, afterItem)
    ELSE \/ isEqual(LookupRecord(BeforeData, keyValue), afterItem)
         \/ ModifiedFromTo(LookupRecord(BeforeData, keyValue), afterItem)

\* A repeated key value is matched and classified with its last record.
LaterMatched ==
    /\ \A j \in Repeats(AfterData) :
          AfterWinnerClassified(KeyValueOf(AfterData[j]),
              LookupRecord(AfterData, KeyValueOf(AfterData[j])))
    /\ \A j \in Repeats(BeforeData) :
          \/ WithKeyValue(AfterData, KeyValueOf(BeforeData[j])) # {}
          \/ CarriedBy(Result.deletedEntries,
                 LookupRecord(BeforeData, KeyValueOf(BeforeData[j])))

DuplicatesResolved ==
    /\ DuplicateKeyWarnings("before") = RepeatWarnings(BeforeData, "before")
    /\ DuplicateKeyWarnings("after") = RepeatWarnings(AfterData, "after")
    /\ WinnersUsed
    /\ LaterMatched

\* A click on the button that compares two arrays, one of which repeats a
\* key value.
ComparesDuplicateKey ==
    /\ CompareClicked
    /\ BothArrays
    /\ Repeats(BeforeData) \cup Repeats(AfterData) # {}

\* C11 (DuplicateKey): when two valid keyed records of one side share a
\* key value, the later one is the record matched and classified, the
\* warnings of the result hold one DuplicateKey warning per repeated
\* occurrence naming the key value, the key field and the signature, and
\* the comparison still stores a result.
C11_DuplicateKey ==
    /\ [](ResultIsCurrent => DuplicatesResolved)
    /\ [][ComparesDuplicateKey => Compared']_vars

\* A comparison of an After array whose two records have one signature,
\* one key value and different fields, matched with a Before record.
C11_Resolved ==
    /\ ResultIsCurrent
    /\ Len(AfterData) = 2
    /\ Repeats(AfterData) = {2}
    /\ getObjectSignature(AfterData[1]) = getObjectSignature(AfterData[2])
    /\ ~ isEqual(AfterData[1], AfterData[2])
    /\ Len(DuplicateKeyWarnings("after")) = 1
    /\ Len(Result.modifiedEntries) > 0

----------------------------------------------------------------------------
(* The validation gate                                                     *)

\* The signatures of both inventories that the key mapping has no
\* non-empty entry for.
MissingKeys ==
    {sig \in Signatures(beforeJsonStructures)
                 \cap Signatures(afterJsonStructures) :
        KeyFieldOf(selectedKeyConfig, sig) = ""}

MissingKeyMessage == "Please select a key field for object structure"

\* The banner holds the missing-key error, which names a signature of
\* MissingKeys.
MissingKeyError(banner, missing) ==
    /\ Len(banner) = 1
    /\ banner[1].message = MissingKeyMessage
    /\ banner[1].subject \in missing

\* A call of compareJsons with two texts that parse to arrays.
ComparesArrays == CompareInvoked /\ BothArrays

\* C12 (Validation gate): a call of compareJsons on two arrays fails with
\* the missing-key error naming the signature, and stores no result,
\* whenever a signature of both inventories has no non-empty entry in the
\* key mapping; otherwise it stores a result, whatever the signatures of
\* one inventory only.  The button is disabled for exactly the states in
\* which a text is blank or the call would fail so.
C12_Gate ==
    /\ [][ComparesArrays =>
             IF MissingKeys # {}
             THEN /\ comparisonResult' = Null
                  /\ MissingKeyError(error', MissingKeys)
             ELSE comparisonResult' # Null]_vars
    /\ [](~ effectPending =>
             (isCompareDisabled <=>
                 \/ IsBlank(beforeJsonString)
                 \/ IsBlank(afterJsonString)
                 \/ MissingKeys # {}))

\* A call has failed on a signature of both inventories that has no key.
C12_Blocked ==
    /\ BothArrays
    /\ MissingKeys # {}
    /\ comparisonResult = Null
    /\ MissingKeyError(error, MissingKeys)

----------------------------------------------------------------------------
(* Key resolution                                                          *)

\* The potential key field of every shape of the signature that has
\* exactly one, in the two inventories.
SinglePotentialKeysIn(structures, sig) ==
    {structures[i].potentialKeyFields[1] :
        i \in {j \in 1..Len(structures) :
                  /\ structures[j].signature = sig
                  /\ Len(structures[j].potentialKeyFields) = 1}}

SinglePotentialKeys(beforeStructures, afterStructures, sig) ==
    SinglePotentialKeysIn(beforeStructures, sig)
        \cup SinglePotentialKeysIn(afterStructures, sig)

\* Every signature with a shape of exactly one potential key field and no
\* entry in the old mapping has such a field as its entry in the new one.
UniqueKeysSelected(old, new, beforeStructures, afterStructures) ==
    \A sig \in Signatures(beforeStructures) \cup Signatures(afterStructures) :
        (/\ SinglePotentialKeys(beforeStructures, afterStructures, sig) # {}
         /\ KeyFieldOf(old, sig) = "")
        => KeyFieldOf(new, sig)
               \in SinglePotentialKeys(beforeStructures, afterStructures, sig)

\* Every non-empty entry of the old mapping is an entry of the new one.
EntriesKept(old, new) ==
    \A sig \in DOMAIN old :
        old[sig] # "" => KeyFieldOf(new, sig) = old[sig]

\* C13 (Unique-key auto-selection): after a run of the key-resolution
\* step, every signature of either inventory that has exactly one
\* potential key field and had no entry in the mapping has that field as
\* its entry, and every entry the mapping had before the step is
\* unchanged.
C13_AutoSelection ==
    [][AnalysisEffect =>
          /\ UniqueKeysSelected(selectedKeyConfig, selectedKeyConfig',
                                beforeJsonStructures', afterJsonStructures')
          /\ EntriesKept(selectedKeyConfig, selectedKeyConfig')]_vars

----------------------------------------------------------------------------
(* Sticky key selections                                                   *)

\* The mapping has an entry for the signature that the auto-selection does
\* not give: the user has chosen it.
ManuallySelected(sig) ==
    /\ KeyFieldOf(selectedKeyConfig, sig) # ""
    /\ sig \notin AutoSelected(EmptyConfig, beforeJsonStructures,
                               afterJsonStructures)

\* The step is the choice of a key for the signature in its select.
SelectsKeyFor(sig) ==
    \E keyField \in KeyFields : handleKeySelectionChange(sig, keyField)

\* The step is an edit of a text area or the load of a file.
InputChanged ==
    \E type \in Sides, text \in EditTexts :
        TextareaChange(type, text) \/ FileLoaded(type, text)

\* C14 (Sticky user choices), as claimed: over text edits, file loads and
\* key selections, a key field the user selected for a signature stays
\* the entry of that signature until the user selects another one for it.
C14_Sticky ==
    [][\A sig \in DOMAIN selectedKeyConfig :
          ManuallySelected(sig)
          => \/ KeyFieldOf(selectedKeyConfig', sig) = selectedKeyConfig[sig]
             \/ SelectsKeyFor(sig)]_vars

\* C14, amended: a step that is no text edit and no file load changes no
\* entry of the mapping that is not empty, except the entry the user
\* selects another key for; a text edit or a file load empties the
\* mapping.
C14_StickyUntilInput ==
    [][IF InputChanged
       THEN selectedKeyConfig' = EmptyConfig
       ELSE \A sig \in DOMAIN selectedKeyConfig :
               selectedKeyConfig[sig] # ""
               => \/ KeyFieldOf(selectedKeyConfig', sig)
                         = selectedKeyConfig[sig]
                  \/ SelectsKeyFor(sig)]_vars

\* The user's choice for one signature and the auto-selected key of
\* another have passed the analysis effect and a comparison.
C14_Selected ==
    /\ ~ effectPending
    /\ ResultIsCurrent
    /\ \E sig \in DOMAIN selectedKeyConfig : ManuallySelected(sig)
    /\ \E sig \in DOMAIN selectedKeyConfig :
          /\ selectedKeyConfig[sig] # ""
          /\ ~ ManuallySelected(sig)

----------------------------------------------------------------------------
(* Diff-time input validation                                              *)

\* The elements of an array that are non-null objects, and the others.
RecordsOf(data) == SelectSeq(data, IsRecord)
NonRecordsOf(data) == SelectSeq(data, NotAnObject)

\* The warnings of a result for the skipped elements of one side, and its
\* other warnings.
SkippedWarnings(errors, side) ==
    SelectSeq(errors, LAMBDA w : w.kind = "SkippedItem" /\ w.side = side)

OtherWarnings(errors) == SelectSeq(errors, LAMBDA w : w.kind # "SkippedItem")

\* One warning for each element of the array that is no record, in the
\* order of the array, with the text of the element.
SkippedOf(data, side) ==
    [i \in 1..Len(NonRecordsOf(data)) |->
        Warning("SkippedItem", side, "", "",
                JSONstringify(NonRecordsOf(data)[i]))]

\* The result has the three lists and the other warnings of the
\* comparison of the records alone.
SameAsComparisonOf(result, clean) ==
    /\ result.newEntries = clean.newEntries
    /\ result.modifiedEntries = clean.modifiedEntries
    /\ result.deletedEntries = clean.deletedEntries
    /\ OtherWarnings(result.errors) = clean.errors

NonObjectsExcluded ==
    /\ SkippedWarnings(Result.errors, "before") = SkippedOf(BeforeData, "before")
    /\ SkippedWarnings(Result.errors, "after") = SkippedOf(AfterData, "after")
    /\ SameAsComparisonOf(Result,
           Compare(RecordsOf(BeforeData), RecordsOf(AfterData),
                   selectedKeyConfig))

\* The banner of a parse failure of one of the two texts.
ParseError(banner) ==
    /\ Len(banner) = 1
    /\ banner[1].message
           \in {"Error parsing 'Before JSON'", "Error parsing 'After JSON'"}

\* A click on the button with a text that is no array, and one with two
\* arrays of which one has an element that is no record.
ComparesNonArray == CompareClicked /\ ~ BothArrays

ComparesNonObject ==
    /\ CompareClicked
    /\ BothArrays
    /\ NonRecordsOf(BeforeData) \o NonRecordsOf(AfterData) # <<>>

\* C15 (Diff-time input validation): a comparison of a text that is no
\* array ends in a parse error and stores no result; an array element that
\* is null or a primitive gives one warning for its side and is left out of
\* the comparison, whose result for the remaining records is still stored.
C15_DiffValidation ==
    /\ [](ResultIsCurrent => NonObjectsExcluded)
    /\ [][ComparesNonArray => comparisonResult' = Null /\ ParseError(error')]_vars
    /\ [][ComparesNonObject => Compared']_vars

\* A comparison of arrays that hold null and a primitive next to records
\* has stored entries for the records.
C15_Skipped ==
    /\ ResultIsCurrent
    /\ \E i \in 1..Len(Result.errors) :
          Result.errors[i].kind = "SkippedItem" /\ Result.errors[i].value = "null"
    /\ \E i \in 1..Len(Result.errors) :
          Result.errors[i].kind = "SkippedItem" /\ Result.errors[i].value = "5"
    /\ Len(Result.newEntries) + Len(Result.deletedEntries) > 0

----------------------------------------------------------------------------
(* Shape-analysis input validation                                         *)

\* The call of analyzeJsonStructures has returned, and what it returned.
AnalysisReturned == returned # Null
ReturnedAnalysis == returned[1]

\* The analysed text is an array with an element that is null or a
\* primitive.
HasNonObject(jsonString) ==
    /\ jsonString.kind = "array"
    /\ \E i \in 1..Len(jsonString.items) : NotAnObject(jsonString.items[i])

\* C16 (Shape-analysis input validation): analyzeJsonStructures returns an
\* error and no structure for a text that is no array and for an array with
\* a null or primitive element at any position, and no structure and no
\* error for the empty array.
C16_AnalysisValidation ==
    AnalysisReturned =>
       /\ (argJsonString.kind = "nonarray" \/ HasNonObject(argJsonString))
             => /\ ReturnedAnalysis.error # ""
                /\ ReturnedAnalysis.structures = <<>>
       /\ argJsonString = ArrayText(<<>>)
             => /\ ReturnedAnalysis.error = ""
                /\ ReturnedAnalysis.structures = <<>>

\* The analysis of an array of two records followed by null has returned
\* the error.
C16_Rejected ==
    /\ AnalysisReturned
    /\ argJsonString.kind = "array"
    /\ Len(argJsonString.items) = 3
    /\ IsRecord(argJsonString.items[1])
    /\ IsRecord(argJsonString.items[2])
    /\ argJsonString.items[3] = JsonNull
    /\ ReturnedAnalysis.error = "All items in the JSON array must be objects."

----------------------------------------------------------------------------
(* Fatal errors and warnings                                               *)

BlankInputMessage == "Both 'Before JSON' and 'After JSON' must be provided."

\* compareJsons is called on inputs it rejects: a blank text, a text that
\* does not parse to an array, or a signature of both inventories without
\* a key.
FatalInput ==
    \/ IsBlank(beforeJsonString)
    \/ IsBlank(afterJsonString)
    \/ ~ BothArrays
    \/ MissingKeys # {}

\* The banner holds one of the fatal errors of compareJsons.
FatalError(banner) ==
    /\ Len(banner) = 1
    /\ banner[1].message
           \in {BlankInputMessage, "Error parsing 'Before JSON'",
                "Error parsing 'After JSON'", MissingKeyMessage}

\* C17 (Fatal errors block results): a call of compareJsons on a blank
\* text, on a text that does not parse to an array or with a missing key
\* selection ends in a fatal error and leaves the stored result null,
\* whatever result an earlier call has stored; every other call stores the
\* whole result of the comparison, its warnings included, and no fatal
\* error.
C17_FatalBlocks ==
    [][CompareInvoked =>
          IF FatalInput
          THEN /\ comparisonResult' = Null
               /\ FatalError(error')
          ELSE /\ comparisonResult'
                      = <<Compare(BeforeData, AfterData, selectedKeyConfig)>>
               /\ ~ FatalError(error')]_vars

\* A result with warnings is stored, an earlier call has stored a result
\* and the next call is fatal.
C17_ResultBeforeFatal ==
    /\ Compared
    /\ Len(Result.errors) > 0
    /\ ~ effectPending
    /\ FatalInput

----------------------------------------------------------------------------
(* Determinism                                                             *)

Reverse(seq) == [i \in 1..Len(seq) |-> seq[Len(seq) + 1 - i]]

\* The array with the fields of its j-th record listed in the reverse
\* order.
Reordered(data, j) ==
    [data EXCEPT ![j] = IF IsRecord(@) THEN Obj(Reverse(@.f)) ELSE @]

\* Two lists of entries hold the same records at the same positions,
\* whatever the order of the fields of a record.
SameEntries(l1, l2) ==
    /\ Len(l1) = Len(l2)
    /\ \A i \in 1..Len(l1) : isEqual(l1[i], l2[i])

SameChanges(c1, c2) ==
    /\ isEqual(c1.added, c2.added)
    /\ isEqual(c1.removed, c2.removed)
    /\ isEqual(c1.changed, c2.changed)

SameModifiedEntry(m1, m2) ==
    /\ m1.keyFieldValue = m2.keyFieldValue
    /\ m1.keyFieldUsed = m2.keyFieldUsed
    /\ m1.objectSignature = m2.objectSignature
    /\ isEqual(m1.before, m2.before)
    /\ isEqual(m1.after, m2.after)
    /\ SameChanges(m1.changes, m2.changes)

SameResult(r1, r2) ==
    /\ SameEntries(r1.newEntries, r2.newEntries)
    /\ SameEntries(r1.deletedEntries, r2.deletedEntries)
    /\ Len(r1.modifiedEntries) = Len(r2.modifiedEntries)
    /\ \A i \in 1..Len(r1.modifiedEntries) :
          SameModifiedEntry(r1.modifiedEntries[i], r2.modifiedEntries[i])

\* The comparison of the inputs with the fields of any one record listed
\* in the reverse order has the result of the comparison of the inputs.
FieldOrderIrrelevant ==
    /\ \A j \in 1..Len(BeforeData) :
          SameResult(Result, Compare(Reordered(BeforeData, j), AfterData,
                                     selectedKeyConfig))
    /\ \A j \in 1..Len(AfterData) :
          SameResult(Result, Compare(BeforeData, Reordered(AfterData, j),
                                     selectedKeyConfig))

\* C18 (Determinism): for fixed inputs and key mapping a second run of the
\* comparison stores the result of the first, and the new, modified and
\* deleted entries and their field changes are the same when the fields of
\* an input record are listed in another order.
C18_Determinism ==
    /\ [](ResultIsCurrent => FieldOrderIrrelevant)
    /\ [][CompareClicked /\ ResultIsCurrent
             => comparisonResult' = comparisonResult]_vars

----------------------------------------------------------------------------
(* Shape grouping                                                          *)

\* The analysis of an array of records has returned its structures.
AnalysedRecords ==
    /\ AnalysisReturned
    /\ argJsonString.kind = "array"
    /\ ~ HasNonObject(argJsonString)

AnalysedItems == argJsonString.items

\* The set of field names of a record, and the records of the analysed
\* array that have a given set of field names.
FieldSet(obj) == Range(ObjectKeys(obj))

WithFieldSet(fields) ==
    {i \in 1..Len(AnalysedItems) : FieldSet(AnalysedItems[i]) = fields}

FieldSets == {FieldSet(AnalysedItems[i]) : i \in 1..Len(AnalysedItems)}

\* Two records have one signature exactly when they have the same set of
\* field names.
SignatureIsFieldSet ==
    \A i, j \in 1..Len(AnalysedItems) :
        getObjectSignature(AnalysedItems[i]) = getObjectSignature(AnalysedItems[j])
            <=> FieldSet(AnalysedItems[i]) = FieldSet(AnalysedItems[j])

\* The returned structures are the sets of field names of the array, each
\* with the number of its records.
OneStructurePerFieldSet ==
    /\ Len(ReturnedAnalysis.structures) = Cardinality(FieldSets)
    /\ \A fields \in FieldSets :
          \E i \in 1..Len(ReturnedAnalysis.structures) :
              /\ Range(ReturnedAnalysis.structures[i].keys) = fields
              /\ ReturnedAnalysis.structures[i].count
                     = Cardinality(WithFieldSet(fields))

\* C19 (Shape grouping): the records of an analysed array are grouped by
\* their set of field names, whatever the order the fields are listed in:
\* equal sets give one signature and one structure, different sets give
\* different signatures and different structures.
C19_ShapeGrouping == AnalysedRecords => SignatureIsFieldSet /\ OneStructurePerFieldSet

----------------------------------------------------------------------------
(* Potential key fields                                                    *)

\* The records of the analysed array that a structure counts.
MembersOf(structure) ==
    {i \in 1..Len(AnalysedItems) :
        getObjectSignature(AnalysedItems[i]) = structure.signature}

\* The field names that every member of the structure has with a string
\* value that is not empty once trimmed.
ValidInEveryMember(structure) ==
    {key \in UNION {FieldSet(AnalysedItems[i]) : i \in MembersOf(structure)} :
        \A i \in MembersOf(structure) : IsValidKeyValue(AnalysedItems[i], key)}

\* The names of a sequence are in the order of sort(), each once.
IsSorted(names) ==
    \A i, j \in 1..Len(names) : i < j => Rank(names[i]) < Rank(names[j])

\* C20 (Potential key fields): the potentialKeyFields of every returned
\* structure are, in sorted order and each once, the field names that
\* every record of the structure has with a string value that is not empty
\* once trimmed.
C20_PotentialKeyFields ==
    AnalysedRecords =>
        \A n \in 1..Len(ReturnedAnalysis.structures) :
           /\ Range(ReturnedAnalysis.structures[n].potentialKeyFields)
                  = ValidInEveryMember(ReturnedAnalysis.structures[n])
           /\ IsSorted(ReturnedAnalysis.structures[n].potentialKeyFields)

\* A structure of three records that list id and x in both orders, with x
\* blank in one of them, has id as its only potential key field.
C20_OneOfTwo ==
    /\ AnalysedRecords
    /\ \E n \in 1..Len(ReturnedAnalysis.structures) :
          /\ ReturnedAnalysis.structures[n].count = 3
          /\ ReturnedAnalysis.structures[n].keys = <<"id", "x">>
          /\ ReturnedAnalysis.structures[n].potentialKeyFields = <<"id">>
          /\ ObjectKeys(AnalysedItems[1]) = <<"x", "id">>
          /\ IsValidKeyValue(AnalysedItems[1], "x")

----------------------------------------------------------------------------
(* One modified entry per key value                                        *)

\* C21: no two modified entries of a stored result carry the same key
\* value, whatever the inputs, repeated key values of the After array
\* included.
C21_ModifiedUnique ==
    Compared =>
        \A i, j \in 1..Len(Result.modifiedEntries) :
            i # j => Result.modifiedEntries[i].keyFieldValue
                         # Result.modifiedEntries[j].keyFieldValue

----------------------------------------------------------------------------
(* Deduplication of newEntries and deletedEntries                          *)

\* The identity of an entry: its signature label with its value for the
\* key field of that signature, or with the whole entry when the signature
\* has no key field.
Identity(entry) ==
    IF KeyFieldOf(selectedKeyConfig, SignatureOf(entry)) # ""
    THEN <<SignatureOf(entry), "key",
           <<Get(entry, KeyFieldOf(selectedKeyConfig, SignatureOf(entry)))>>>>
    ELSE <<SignatureOf(entry), "record", entry.f>>

\* The entries the two loops of the current comparison push, before the
\* deduplication.
BeforeMapOf == PopulateMap(BeforeData, "before", selectedKeyConfig).map
AfterMapOf == PopulateMap(AfterData, "after", selectedKeyConfig).map
FoundByAfterLoop == AfterLoop(AfterData, BeforeMapOf, AfterMapOf, selectedKeyConfig)

NewCandidates == FoundByAfterLoop.newEntries

DeletedCandidates ==
    BeforeLoop(BeforeData, FoundByAfterLoop.deletedEntries, AfterData,
               BeforeMapOf, AfterMapOf, selectedKeyConfig)

UniqueIdentities(entries) ==
    \A i, j \in 1..Len(entries) :
        i # j => Identity(entries[i]) # Identity(entries[j])

\* Every identity of the candidates has its entry in the list, and the
\* entry is the last candidate of that identity.
LastKept(entries, candidates) ==
    /\ {Identity(entries[i]) : i \in 1..Len(entries)}
           = {Identity(candidates[i]) : i \in 1..Len(candidates)}
    /\ \A i \in 1..Len(entries) :
          \E n \in 1..Len(candidates) :
              /\ candidates[n] = entries[i]
              /\ \A m \in (n + 1)..Len(candidates) :
                    Identity(candidates[m]) # Identity(entries[i])

\* C22 (Deduplication): no two entries of newEntries and no two entries of
\* deletedEntries of a result share an identity, and of the candidates
\* that share one the entry pushed last is kept.
C22_Deduplication ==
    ResultIsCurrent =>
        /\ UniqueIdentities(Result.newEntries)
        /\ UniqueIdentities(Result.deletedEntries)
        /\ LastKept(Result.newEntries, NewCandidates)
        /\ LastKept(Result.deletedEntries, DeletedCandidates)

\* Two different candidates of newEntries had one identity, and the
\* result holds one entry for them.
C22_Merged ==
    /\ ResultIsCurrent
    /\ Len(Result.newEntries) < Len(NewCandidates)
    /\ \E i, j \in 1..Len(NewCandidates) :
          /\ Identity(NewCandidates[i]) = Identity(NewCandidates[j])
          /\ NewCandidates[i] # NewCandidates[j]

----------------------------------------------------------------------------
(* Modified entries report changed fields only                             *)

\* C23: every modified entry of a stored result has no added field, no
\* removed field and at least one changed field.
C23_ChangedOnly ==
    Compared =>
        \A i \in 1..Len(Result.modifiedEntries) :
            /\ ObjectKeys(Result.modifiedEntries[i].changes.added) = <<>>
            /\ ObjectKeys(Result.modifiedEntries[i].changes.removed) = <<>>
            /\ ObjectKeys(Result.modifiedEntries[i].changes.changed) # <<>>

----------------------------------------------------------------------------
(* Labels of the entries                                                   *)

\* The entry is labelled with the signature of the record it carries.
EntryLabelled(entry) == SignatureOf(entry) = getObjectSignature(CarriedItem(entry))

\* The record has the signature, the key field configured for it and the
\* key value that the modified entry is labelled with.
LabelledAs(modified, item) ==
    /\ modified.objectSignature = getObjectSignature(item)
    /\ modified.keyFieldUsed = KeyFieldFor(item)
    /\ HasOwn(item, modified.keyFieldUsed)
    /\ Get(item, modified.keyFieldUsed) = Str(modified.keyFieldValue)

\* C24 (Label consistency): every entry of newEntries and deletedEntries
\* has the signature of the record it carries as its objectSignature, and
\* the objectSignature, keyFieldUsed and keyFieldValue of every modified
\* entry are the signature, configured key field and key value of its
\* before record and of its after record.
C24_Labels ==
    ResultIsCurrent =>
        /\ \A i \in 1..Len(Result.newEntries) :
              EntryLabelled(Result.newEntries[i])
        /\ \A i \in 1..Len(Result.deletedEntries) :
              EntryLabelled(Result.deletedEntries[i])
        /\ \A i \in 1..Len(Result.modifiedEntries) :
              /\ LabelledAs(Result.modifiedEntries[i],
                            Result.modifiedEntries[i].before)
              /\ LabelledAs(Result.modifiedEntries[i],
                            Result.modifiedEntries[i].after)

----------------------------------------------------------------------------
(* The key lookup and the signatures                                       *)

\* The positions of a collection whose record repeats the signature and
\* the key value of an earlier valid keyed record of the collection.
RepeatsOfEntity(data) ==
    {j \in 1..Len(data) :
        /\ Keyed(data[j])
        /\ \E i \in 1..(j - 1) :
              Keyed(data[i]) /\ EntityOf(data[i]) = EntityOf(data[j])}

\* Every valid keyed record of the collection is looked up as a record of
\* its own signature: no record of another signature has taken its place.
RetainedIn(map, data) ==
    \A j \in 1..Len(data) :
        Keyed(data[j]) =>
            /\ KeyValueOf(data[j]) \in DOMAIN map
            /\ map[KeyValueOf(data[j])].signature = getObjectSignature(data[j])

\* C25: valid keyed records of one side that have different signatures and
\* the same key value are both kept in the lookup of the side, neither in
\* the place of the other, and give no duplicate-key warning: the warnings
\* are those of the records that repeat a key value of their own
\* signature.
C25_NoInterference ==
    ResultIsCurrent =>
        /\ RetainedIn(BeforeMapOf, BeforeData)
        /\ RetainedIn(AfterMapOf, AfterData)
        /\ Len(DuplicateKeyWarnings("before"))
               = Cardinality(RepeatsOfEntity(BeforeData))
        /\ Len(DuplicateKeyWarnings("after"))
               = Cardinality(RepeatsOfEntity(AfterData))

----------------------------------------------------------------------------
(* Auto-selected keys and the keys the select offers                       *)

\* The signatures that a step gives a key field.
KeySetFor(old, new) ==
    {sig \in DOMAIN new : new[sig] # "" /\ KeyFieldOf(old, sig) = ""}

\* The field is a potential key field of the signature in both
\* inventories.
PotentialInBoth(beforeStructures, afterStructures, sig, keyField) ==
    /\ keyField \in Range(FindStructure(beforeStructures, sig).potentialKeyFields)
    /\ keyField \in Range(FindStructure(afterStructures, sig).potentialKeyFields)

\* C26: a key field that the analysis effect selects for a signature of
\* both inventories is a potential key field of the signature in both of
\* them.
C26_AutoSelectedOffered ==
    [][AnalysisEffect =>
          \A sig \in KeySetFor(selectedKeyConfig, selectedKeyConfig') :
              (/\ HasStructure(beforeJsonStructures', sig)
               /\ HasStructure(afterJsonStructures', sig))
                 => PotentialInBoth(beforeJsonStructures', afterJsonStructures',
                                    sig, selectedKeyConfig'[sig])]_vars

----------------------------------------------------------------------------
(* The gate and arrays with elements that are no objects                   *)

\* The signatures of the object elements of an array.
SignaturesAmong(data) ==
    {getObjectSignature(data[i]) : i \in {j \in 1..Len(data) : IsRecord(data[j])}}

\* Every signature that occurs among the objects of both inputs has a key
\* field in the mapping.
CommonSignaturesKeyed ==
    \A sig \in SignaturesAmong(BeforeData) \cap SignaturesAmong(AfterData) :
        KeyFieldOf(selectedKeyConfig, sig) # ""

\* C27 (Gate cannot be bypassed): a call of compareJsons stores a result
\* only if every signature that occurs among the object elements of both
\* inputs has a non-empty entry in the key mapping, null or primitive
\* elements notwithstanding.
C27_GateHolds ==
    [][(CompareClicked /\ comparisonResult' # Null) => CommonSignaturesKeyed]_vars

----------------------------------------------------------------------------
(* The fixpoint of the auto-selection                                      *)

\* The mapping has a key for every signature the effect would select one
\* for in the inventories of the two texts: a run of the effect leaves it
\* as it is.
SettledOn(config, beforeStructures, afterStructures) ==
    AutoSelected(config, beforeStructures, afterStructures) = {}

AutoSelectionSettled ==
    SettledOn(selectedKeyConfig,
              analyzeJsonStructures(beforeJsonString).structures,
              analyzeJsonStructures(afterJsonString).structures)

----------------------------------------------------------------------------
(* Freshness of the stored result                                          *)

\* C29 (Result freshness): in every state a stored result is the
\* comparison of the current Before text and the current After text under
\* the current key mapping; no edit of a text, file load or choice of a
\* key leaves an older result stored.
C29_Fresh == Compared => ResultIsCurrent

----------------------------------------------------------------------------
(* The single-key comparator (part_000): one key field for all records.    *)
(* The two texts and the key field are drawn from small sets, and a click  *)
(* on Compare stores the result or the message.                            *)

Parsed(data, message) == [data |-> data, error |-> message]

\* Array.every of parseJson: an object that owns the key field with a
\* string value that is not blank.
EveryItemKeyed(parsed, currentKeyField) ==
    \A i \in 1..Len(parsed) :
        /\ TypeOf(parsed[i]) = "object"
        /\ parsed[i].t # "null"
        /\ HasOwn(parsed[i], currentKeyField)
        /\ Get(parsed[i], currentKeyField).t = "string"
        /\ Trim(Get(parsed[i], currentKeyField).v) # ""

\* parseJson: the parsed array, or null (<<>>) with the message it sets.
parseJson(jsonString, currentKeyField) ==
    IF Trim(currentKeyField) = ""
    THEN Parsed(Null, "Key field cannot be empty.")
    ELSE IF jsonString.kind \in {"blank", "malformed"}
    THEN Parsed(Null, "JSON Parsing Error: Unexpected end of JSON input")
    ELSE IF jsonString.kind # "array"
    THEN Parsed(Null,
                "JSON Parsing Error: Input JSON must be an array of objects.")
    ELSE IF ~ EveryItemKeyed(jsonString.items, currentKeyField)
    THEN Parsed(Null, "JSON Parsing Error: Each item in the JSON array "
                      \o "must be an object with a non-empty string field.")
    ELSE Parsed(<<jsonString.items>>, "")

\* A Map from key value to record, written as an object: the keys keep the
\* order of their first insertion, and a later record replaces an earlier
\* one of its key value.
KeyMapStepFirstKept(map, item, keyField) ==
    IF HasOwn(map, Get(item, keyField).v)
    THEN map
    ELSE SetProp(map, Get(item, keyField).v, item)

KeyMapStep(map, item, keyField) == SetProp(map, Get(item, keyField).v, item)

RECURSIVE KeyMap(_, _)
KeyMap(data, keyField) ==
    IF Len(data) = 0 THEN Obj(<<>>)
    ELSE KeyMapStep(KeyMap(SubSeq(data, 1, Len(data) - 1), keyField),
                    data[Len(data)], keyField)

SingleKeyModified(keyFieldValue, before, after, changes) ==
    [keyFieldValue |-> keyFieldValue, before |-> before, after |-> after,
     changes |-> changes]

SingleKeyResult(newEntries, modifiedEntries, deletedEntries) ==
    [newEntries |-> newEntries, modifiedEntries |-> modifiedEntries,
     deletedEntries |-> deletedEntries]

\* The field changes of a matched pair, without the key field when its
\* two values are equal.
SingleKeyChanges(beforeItem, afterItem, keyField) ==
    LET changes == calculateFieldChangesSingleKey(beforeItem, afterItem)
    IN  IF /\ HasOwn(changes.changed, keyField)
           /\ IsEqualValue(Get(beforeItem, keyField), Get(afterItem, keyField))
        THEN [changes EXCEPT !.changed = DeleteProp(@, keyField)]
        ELSE changes

\* The body of afterMap.forEach.
SingleKeyAfterStep(acc, keyValue, afterItem, beforeMap, keyField) ==
    IF ~ HasOwn(beforeMap, keyValue)
    THEN [acc EXCEPT !.newEntries = Append(@, afterItem)]
    ELSE LET beforeItem == Get(beforeMap, keyValue)
             changes == SingleKeyChanges(beforeItem, afterItem, keyField)
         IN  IF /\ ~ isEqual(beforeItem, afterItem)
                /\ \/ Len(changes.added.f) > 0
                   \/ Len(changes.removed.f) > 0
                   \/ Len(changes.changed.f) > 0
             THEN [acc EXCEPT !.modifiedEntries =
                       Append(@, SingleKeyModified(keyValue, beforeItem,
                                                   afterItem, changes))]
             ELSE acc

RECURSIVE SingleKeyAfterLoop(_, _, _)
SingleKeyAfterLoop(records, beforeMap, keyField) ==
    IF Len(records) = 0 THEN SingleKeyResult(<<>>, <<>>, <<>>)
    ELSE SingleKeyAfterStep(
             SingleKeyAfterLoop(SubSeq(records, 1, Len(records) - 1),
                                beforeMap, keyField),
             records[Len(records)].k, records[Len(records)].v,
             beforeMap, keyField)

\* beforeMap.forEach: the records whose key value the After map lacks.
SingleKeyDeleted(beforeMap, afterMap) ==
    LET unmatched == SelectSeq(beforeMap.f, LAMBDA p : ~ HasOwn(afterMap, p.k))
    IN  [i \in 1..Len(unmatched) |-> unmatched[i].v]

Outcome(result, message) == [comparisonResult |-> result, error |-> message]

\* compareJsons of part_000: what it leaves in comparisonResult and error.
compareJsonsSingleKey(before, after, keyField) ==
    LET beforeData == parseJson(before, keyField)
        afterData == parseJson(after, keyField)
    IN  IF Trim(keyField) = ""
        THEN Outcome(Null, "Please specify a Key Field for comparison.")
        ELSE IF beforeData.data = Null \/ afterData.data = Null
        THEN Outcome(Null, IF afterData.data = Null THEN afterData.error
                           ELSE beforeData.error)
        ELSE LET beforeMap == KeyMap(beforeData.data[1], keyField)
                 afterMap == KeyMap(afterData.data[1], keyField)
                 found == SingleKeyAfterLoop(afterMap.f, beforeMap, keyField)
             IN  Outcome(<<[found EXCEPT !.deletedEntries =
                                SingleKeyDeleted(beforeMap, afterMap)]>>,
                         "")

\* The elements of the compared arrays: records with and without a usable
\* id, in both field orders, null and a number.
SingleKeyItems ==
    {Obj(<<Prop("id", Str("1"))>>),
     Obj(<<Prop("id", Str("1")), Prop("x", Str("1"))>>),
     Obj(<<Prop("id", Str("1")), Prop("x", Str("2"))>>),
     Obj(<<Prop("x", Str("1")), Prop("id", Str("1"))>>),
     Obj(<<Prop("id", Str("2")), Prop("x", Str("1"))>>),
     Obj(<<Prop("id", Str(" "))>>),
     Obj(<<Prop("id", Str(""))>>),
     Obj(<<Prop("id", Num("1"))>>),
     Obj(<<Prop("x", Str("1"))>>),
     JsonNull,
     Num("5")}

SingleKeyTexts ==
    {MalformedText, NonArrayText, BlankText}
        \cup {ArrayText(items) : items \in SeqsUpTo(SingleKeyItems, MaxLen)}

\* What the key field input can hold: a field name, or blanks.
SingleKeyFields == {"id", "x", " "}

SingleKeyInit ==
    /\ beforeJsonString \in SingleKeyTexts
    /\ afterJsonString \in SingleKeyTexts
    /\ argKeyField \in SingleKeyFields
    /\ beforeJsonStructures = <<>>
    /\ afterJsonStructures = <<>>
    /\ selectedKeyConfig = EmptyConfig
    /\ combinedSignatures = <<>>
    /\ comparisonResult = Null
    /\ error = ""
    /\ effectPending = FALSE
    /\ argObj1 = Obj(<<>>)
    /\ argObj2 = Obj(<<>>)
    /\ argJsonString = BlankText
    /\ returned = Null

CompareSingleKeyClicked ==
    LET outcome == compareJsonsSingleKey(beforeJsonString, afterJsonString,
                                         argKeyField)
    IN  /\ comparisonResult' = outcome.comparisonResult
        /\ error' = outcome.error
        /\ UNCHANGED <<beforeJsonString, afterJsonString,
                       beforeJsonStructures, afterJsonStructures,
                       selectedKeyConfig, combinedSignatures, effectPending,
                       callVars>>

SingleKeyNext == CompareSingleKeyClicked

SingleKeySpec == SingleKeyInit /\ [][SingleKeyNext]_vars

----------------------------------------------------------------------------
(* The result of the single-key comparator                                 *)

\* Compare has been clicked: it leaves a result or a message.
SingleKeyCompared == comparisonResult # Null \/ error # ""

BothPass ==
    /\ parseJson(beforeJsonString, argKeyField).data # Null
    /\ parseJson(afterJsonString, argKeyField).data # Null

\* The element has no non-empty string under the key field.
LacksKey(item) ==
    \/ item.t # "object"
    \/ ~ HasOwn(item, argKeyField)
    \/ Get(item, argKeyField).t # "string"
    \/ Get(item, argKeyField).v = ""

SomeElementLacksKey ==
    \E text \in {beforeJsonString, afterJsonString} :
        /\ text.kind = "array"
        /\ \E i \in 1..Len(text.items) : LacksKey(text.items[i])

SingleKeyValueOf(item) == Get(item, argKeyField).v
KeyValuesIn(text) == {SingleKeyValueOf(text.items[i]) : i \in 1..Len(text.items)}

\* The last record of the text with the key value.
LastOccurring(text, keyValue) ==
    LET at == {i \in 1..Len(text.items) : SingleKeyValueOf(text.items[i]) = keyValue}
    IN  text.items[CHOOSE i \in at : \A j \in at : j <= i]

FieldsOf(item) == {item.f[i] : i \in 1..Len(item.f)}
DeeplyEqual(item1, item2) == FieldsOf(item1) = FieldsOf(item2)

NewKeyValues ==
    [i \in 1..Len(Result.newEntries) |-> SingleKeyValueOf(Result.newEntries[i])]
DeletedKeyValues ==
    [i \in 1..Len(Result.deletedEntries) |->
        SingleKeyValueOf(Result.deletedEntries[i])]
ModifiedKeyValues ==
    [i \in 1..Len(Result.modifiedEntries) |->
        Result.modifiedEntries[i].keyFieldValue]

OnePerKey(keyValues) ==
    \A i, j \in 1..Len(keyValues) : keyValues[i] = keyValues[j] => i = j

\* C30 (Single-key variant): after a click on Compare with both texts
\* passing parseJson for the key field, the key values of newEntries are
\* exactly the After keys absent from Before, those of deletedEntries are
\* exactly the Before keys absent from After, a modified entry exists only
\* for a key of both sides whose last records are not deeply equal, the
\* three key sets are pairwise disjoint and no list holds a key twice; and
\* when an element of either array lacks a non-empty string under the key
\* field, no result is stored.
C30_SingleKey ==
    SingleKeyCompared =>
        /\ SomeElementLacksKey => comparisonResult = Null
        /\ BothPass =>
              /\ comparisonResult # Null
              /\ Range(NewKeyValues) =
                     KeyValuesIn(afterJsonString) \ KeyValuesIn(beforeJsonString)
              /\ Range(DeletedKeyValues) =
                     KeyValuesIn(beforeJsonString) \ KeyValuesIn(afterJsonString)
              /\ \A k \in Range(ModifiedKeyValues) :
                     /\ k \in KeyValuesIn(beforeJsonString)
                     /\ k \in KeyValuesIn(afterJsonString)
                     /\ ~ DeeplyEqual(LastOccurring(beforeJsonString, k),
                                      LastOccurring(afterJsonString, k))
              /\ Range(NewKeyValues) \cap Range(DeletedKeyValues) = {}
              /\ Range(NewKeyValues) \cap Range(ModifiedKeyValues) = {}
              /\ Range(DeletedKeyValues) \cap Range(ModifiedKeyValues) = {}
              /\ OnePerKey(NewKeyValues)
              /\ OnePerKey(DeletedKeyValues)
              /\ OnePerKey(ModifiedKeyValues)

\* A result with a new, a modified and no deleted entry, from a Before
\* array that holds the modified key twice.
C30_LastRecordCompared ==
    /\ comparisonResult # Null
    /\ Len(Result.newEntries) = 1
    /\ Len(Result.modifiedEntries) = 1
    /\ Len(beforeJsonString.items) = 2
    /\ KeyValuesIn(beforeJsonString) = {Result.modifiedEntries[1].keyFieldValue}
    /\ beforeJsonString.items[1] # beforeJsonString.items[2]

\* A text with an element that lacks the key has been compared: the
\* message is shown and no result.
C30_Rejected ==
    /\ SingleKeyCompared
    /\ SomeElementLacksKey
    /\ parseJson(beforeJsonString, argKeyField).data # Null

====
